---------------------------- MODULE Spec2Model ----------------------------
(***************************************************************************)
(* The registry store of iarnet-global (internal/domain/registry), the     *)
(* heartbeat intake RPC server in front of it and the liveness sweeper.    *)
(*                                                                         *)
(* Every Manager method runs under Manager.mu, so one Manager call is one  *)
(* atomic step.  An RPC handler makes several Manager calls.  It is        *)
(* modelled twice from the same building blocks: as one action that runs   *)
(* the whole handler (RegisterNode, HealthCheck), and as a sequence of     *)
(* steps, one per lock acquisition, whose steps interleave with those of   *)
(* other handlers and of the sweeper (the actions named handler_step).  In *)
(* the stepwise form a request field is drawn at the step that first reads *)
(* it; a field that a later step reads again is kept in the call record.   *)
(*                                                                         *)
(* Time is the wall clock in seconds.  It advances between requests: a     *)
(* handler that has started finishes before the clock moves on.            *)
(***************************************************************************)
EXTENDS Integers, Sequences, FiniteSets, TLC

(***************************************************************************)
(* Bounds of the model                                                     *)
(***************************************************************************)
MaxNodes == 2
MaxDomains == 2
MaxClients == 2
MaxTime == 75
TickStep == 5
LateStep == 35
MaxQuietNodes == 3

(***************************************************************************)
(* Program constants                                                       *)
(***************************************************************************)
SweepInterval == 10
TimeoutDuration == 30
CleanupDuration == TimeoutDuration * 2

(***************************************************************************)
(* Identifiers and values                                                  *)
(***************************************************************************)
NodeIDPool == <<"n1", "n2", "n3", "n4">>
DomainIDPool == <<"domain.1", "domain.2", "domain.3", "domain.4">>
NodeIDs == {NodeIDPool[i] : i \in 1..MaxNodes}
DomainIDs == {DomainIDPool[i] : i \in 1..MaxDomains}
Clients == 1..MaxClients

NoNode == "<nil>"

NodeStatusOnline == "online"
NodeStatusOffline == "offline"
NodeStatusError == "error"

ErrNone == "nil"
ErrDomainNotFound == "domain not found"
ErrDomainAlreadyExists == "domain already exists"
ErrNodeNotFound == "node not found"
ErrNodeAlreadyExists == "node already exists"
ErrNodeNotInDomain == "node not in domain"
ErrInvalidResourceTags == "invalid resource tags"
ErrPersist == "failed to persist domain to repository"
ErrInsert == "failed to insert domain"
ErrFieldRequired == "field is required"

NilTags == [isNil |-> TRUE, CPU |-> FALSE, GPU |-> FALSE, Memory |-> FALSE, Camera |-> FALSE]

NewResourceTags(cpu, gpu, memory, camera) ==
    [isNil |-> FALSE, CPU |-> cpu, GPU |-> gpu, Memory |-> memory, Camera |-> camera]

NewEmptyResourceTags == NewResourceTags(FALSE, FALSE, FALSE, FALSE)

\* domains, nodes: the maps of the Manager.  repo: the rows of the domains
\* table.  created: the domains CreateDomain has returned to its callers.
\* sched: the DeployComponent call in progress.  dials: the connections that
\* call has opened, with the request each downstream node received and the
\* response it gave.
VARIABLES domains, nodes, now, nextSweep, genCount, calls, repo, created, sched, dials

vars == <<domains, nodes, now, nextSweep, genCount, calls, repo, created, sched, dials>>

Range(s) == {s[i] : i \in 1..Len(s)}

Min(a, b) == IF a < b THEN a ELSE b

(***************************************************************************)
(* Domain (types.go)                                                       *)
(***************************************************************************)
DomainAddNode(d, nodeID) ==
    IF \E i \in 1..Len(d.NodeIDs) : d.NodeIDs[i] = nodeID
    THEN d
    ELSE [d EXCEPT !.NodeIDs = Append(@, nodeID)]

FirstIndex(ids, nodeID) ==
    IF \E i \in 1..Len(ids) : ids[i] = nodeID
    THEN CHOOSE i \in 1..Len(ids) : ids[i] = nodeID /\ \A j \in 1..(i - 1) : ids[j] # nodeID
    ELSE 0

\* Mutant: removing the head node leaves HeadNodeID as it was.
DomainRemoveNodeKeepsHead(d, nodeID) ==
    LET i == FirstIndex(d.NodeIDs, nodeID) IN
    IF i = 0
    THEN d
    ELSE [d EXCEPT !.NodeIDs = SubSeq(@, 1, i - 1) \o SubSeq(@, i + 1, Len(@))]

DomainRemoveNode(d, nodeID) ==
    LET i == FirstIndex(d.NodeIDs, nodeID) IN
    IF i = 0
    THEN d
    ELSE [d EXCEPT !.NodeIDs = SubSeq(@, 1, i - 1) \o SubSeq(@, i + 1, Len(@)),
                   !.HeadNodeID = IF @ # NoNode /\ @ = nodeID THEN NoNode ELSE @]

SetHeadNodeErr(d, nodeID) ==
    IF \E i \in 1..Len(d.NodeIDs) : d.NodeIDs[i] = nodeID
    THEN ErrNone
    ELSE ErrNodeNotInDomain

DomainSetHeadNode(d, nodeID) ==
    IF SetHeadNodeErr(d, nodeID) = ErrNone
    THEN [d EXCEPT !.HeadNodeID = nodeID]
    ELSE d

(***************************************************************************)
(* Manager (manager.go).  A store is the pair of maps the guard protects:  *)
(* [domains |-> ..., nodes |-> ...].                                       *)
(***************************************************************************)
GetDomainErr(doms, domainID) ==
    IF domainID \in DOMAIN doms THEN ErrNone ELSE ErrDomainNotFound

GetNodeErr(nds, nodeID) ==
    IF nodeID \in DOMAIN nds THEN ErrNone ELSE ErrNodeNotFound

OrTags(acc, t) ==
    IF t.isNil
    THEN acc
    ELSE [acc EXCEPT !.CPU = IF t.CPU THEN TRUE ELSE @,
                     !.GPU = IF t.GPU THEN TRUE ELSE @,
                     !.Memory = IF t.Memory THEN TRUE ELSE @,
                     !.Camera = IF t.Camera THEN TRUE ELSE @]

\* Mutant: only the tags of online nodes are aggregated.
RECURSIVE AggregateFromOnline(_, _, _, _)
AggregateFromOnline(ids, nds, i, acc) ==
    IF i > Len(ids)
    THEN acc
    ELSE AggregateFromOnline(ids, nds, i + 1,
             IF ids[i] \in DOMAIN nds /\ ~nds[ids[i]].ResourceTags.isNil
                /\ nds[ids[i]].Status = NodeStatusOnline
             THEN OrTags(acc, nds[ids[i]].ResourceTags)
             ELSE acc)

RECURSIVE AggregateFrom(_, _, _, _)
AggregateFrom(ids, nds, i, acc) ==
    IF i > Len(ids)
    THEN acc
    ELSE IF ids[i] \notin DOMAIN nds
         THEN AggregateFrom(ids, nds, i + 1, acc)
         ELSE AggregateFrom(ids, nds, i + 1, OrTags(acc, nds[ids[i]].ResourceTags))

updateDomainResourceTags(st, domainID, t) ==
    [st EXCEPT !.domains[domainID].ResourceTags =
                   AggregateFrom(st.domains[domainID].NodeIDs, st.nodes, 1, NewEmptyResourceTags),
               !.domains[domainID].UpdatedAt = t]

updateDomainResourceTagsUnsafe(st, domainID, t) ==
    [st EXCEPT !.domains[domainID].ResourceTags =
                   AggregateFrom(st.domains[domainID].NodeIDs, st.nodes, 1, NewEmptyResourceTags),
               !.domains[domainID].UpdatedAt = t]

Put(f, k, v) == [x \in (DOMAIN f) \cup {k} |-> IF x = k THEN v ELSE f[x]]

Drop(f, ks) == [x \in (DOMAIN f) \ ks |-> f[x]]

AddDomainErr(st, domain) ==
    IF domain.ID \in DOMAIN st.domains THEN ErrDomainAlreadyExists ELSE ErrNone

\* Mutant: a domain whose ID is in the store is replaced.
ManagerAddDomainOverwrites(st, domain) ==
    [st EXCEPT !.domains = Put(@, domain.ID, domain)]

ManagerAddDomain(st, domain) ==
    IF AddDomainErr(st, domain) # ErrNone
    THEN st
    ELSE [st EXCEPT !.domains = Put(@, domain.ID, domain)]

RemoveDomainErr(st, domainID) ==
    IF domainID \in DOMAIN st.domains THEN ErrNone ELSE ErrDomainNotFound

\* Mutant: the domain is removed and its nodes stay in the nodes map.
ManagerRemoveDomainNoCascade(st, domainID) ==
    IF RemoveDomainErr(st, domainID) # ErrNone
    THEN st
    ELSE [st EXCEPT !.domains = Drop(@, {domainID})]

\* Mutant: the loop over the domain's NodeIDs stops after the first node.
ManagerRemoveDomainFirstOnly(st, domainID) ==
    IF RemoveDomainErr(st, domainID) # ErrNone
    THEN st
    ELSE [domains |-> Drop(st.domains, {domainID}),
          nodes |-> Drop(st.nodes, {st.domains[domainID].NodeIDs[i] : i \in {1} \cap
                                        (1..Len(st.domains[domainID].NodeIDs))})]

ManagerRemoveDomain(st, domainID) ==
    IF RemoveDomainErr(st, domainID) # ErrNone
    THEN st
    ELSE [domains |-> Drop(st.domains, {domainID}),
          nodes |-> Drop(st.nodes, Range(st.domains[domainID].NodeIDs))]

\* Mutant: the node ID is not looked up.
AddNodeErrNoLookup(st, node) ==
    IF node.DomainID \notin DOMAIN st.domains
    THEN ErrDomainNotFound
    ELSE IF node.IsHead
         THEN SetHeadNodeErr(DomainAddNode(st.domains[node.DomainID], node.ID), node.ID)
         ELSE ErrNone

\* Mutant: the domain is looked up before the node ID.
AddNodeErrDomainFirst(st, node) ==
    IF node.DomainID \notin DOMAIN st.domains
    THEN ErrDomainNotFound
    ELSE IF node.ID \in DOMAIN st.nodes
         THEN ErrNodeAlreadyExists
         ELSE IF node.IsHead
              THEN SetHeadNodeErr(DomainAddNode(st.domains[node.DomainID], node.ID), node.ID)
              ELSE ErrNone

AddNodeErr(st, node) ==
    IF node.ID \in DOMAIN st.nodes
    THEN ErrNodeAlreadyExists
    ELSE IF node.DomainID \notin DOMAIN st.domains
         THEN ErrDomainNotFound
         ELSE IF node.IsHead
              THEN SetHeadNodeErr(DomainAddNode(st.domains[node.DomainID], node.ID), node.ID)
              ELSE ErrNone

\* Mutant: a node whose ID is taken replaces the stored node.
ManagerAddNodeOverwrites(st, node, t) ==
    IF node.ID \in DOMAIN st.nodes
    THEN [st EXCEPT !.nodes[node.ID] = node]
    ELSE IF node.DomainID \notin DOMAIN st.domains
         THEN st
         ELSE updateDomainResourceTags(
                  [domains |-> [st.domains EXCEPT ![node.DomainID] = DomainAddNode(@, node.ID)],
                   nodes |-> Put(st.nodes, node.ID, node)],
                  node.DomainID, t)

ManagerAddNode(st, node, t) ==
    IF AddNodeErr(st, node) \in {ErrNodeAlreadyExists, ErrDomainNotFound}
    THEN st
    ELSE LET added == DomainAddNode(st.domains[node.DomainID], node.ID) IN
         IF node.IsHead /\ SetHeadNodeErr(added, node.ID) # ErrNone
         THEN [st EXCEPT !.domains[node.DomainID] = DomainRemoveNode(added, node.ID)]
         ELSE updateDomainResourceTags(
                  [domains |-> [st.domains EXCEPT ![node.DomainID] =
                                    IF node.IsHead THEN DomainSetHeadNode(added, node.ID) ELSE added],
                   nodes |-> Put(st.nodes, node.ID, node)],
                  node.DomainID, t)

UpdateNodeErr(st, nodeID) ==
    IF nodeID \in DOMAIN st.nodes THEN ErrNone ELSE ErrNodeNotFound

\* Mutant: the node is updated and its domain's tags are not refreshed.
ManagerUpdateNodeNoRefresh(st, nodeID, mutated, t) ==
    IF UpdateNodeErr(st, nodeID) # ErrNone
    THEN st
    ELSE [st EXCEPT !.nodes[nodeID] = [mutated EXCEPT !.UpdatedAt = t]]

\* updateFn is the node after the mutator ran; UpdateNode then stamps UpdatedAt.
ManagerUpdateNode(st, nodeID, mutated, t) ==
    IF UpdateNodeErr(st, nodeID) # ErrNone
    THEN st
    ELSE LET st1 == [st EXCEPT !.nodes[nodeID] = [mutated EXCEPT !.UpdatedAt = t]] IN
         IF st1.nodes[nodeID].DomainID \in DOMAIN st1.domains
         THEN updateDomainResourceTags(st1, st1.nodes[nodeID].DomainID, t)
         ELSE st1

RemoveNodeErr(st, nodeID) ==
    IF nodeID \in DOMAIN st.nodes THEN ErrNone ELSE ErrNodeNotFound

\* Mutant: the domain keeps the tags it had with the node.
ManagerRemoveNodeStaleTags(st, nodeID, t) ==
    IF RemoveNodeErr(st, nodeID) # ErrNone
    THEN st
    ELSE LET d == st.nodes[nodeID].DomainID
             st1 == IF d \in DOMAIN st.domains
                    THEN [st EXCEPT !.domains[d] = DomainRemoveNode(@, nodeID)]
                    ELSE st
         IN [st1 EXCEPT !.nodes = Drop(@, {nodeID})]

ManagerRemoveNode(st, nodeID, t) ==
    IF RemoveNodeErr(st, nodeID) # ErrNone
    THEN st
    ELSE LET d == st.nodes[nodeID].DomainID
             st1 == IF d \in DOMAIN st.domains
                    THEN updateDomainResourceTags(
                             [st EXCEPT !.domains[d] = DomainRemoveNode(@, nodeID)], d, t)
                    ELSE st
         IN [st1 EXCEPT !.nodes = Drop(@, {nodeID})]

\* Mutant: the node leaves its domain's NodeIDs and stays in the nodes map.
removeNodeUnsafeKeepsNode(st, nodeID, t) ==
    IF nodeID \notin DOMAIN st.nodes
    THEN st
    ELSE LET d == st.nodes[nodeID].DomainID
         IN IF d \in DOMAIN st.domains
            THEN updateDomainResourceTagsUnsafe(
                     [st EXCEPT !.domains[d] = DomainRemoveNode(@, nodeID)], d, t)
            ELSE st

removeNodeUnsafe(st, nodeID, t) ==
    IF nodeID \notin DOMAIN st.nodes
    THEN st
    ELSE LET d == st.nodes[nodeID].DomainID
             st1 == IF d \in DOMAIN st.domains
                    THEN updateDomainResourceTagsUnsafe(
                             [st EXCEPT !.domains[d] = DomainRemoveNode(@, nodeID)], d, t)
                    ELSE st
         IN [st1 EXCEPT !.nodes = Drop(@, {nodeID})]

ManagerUpdateNodeStatus(st, nodeID, status, t) ==
    IF UpdateNodeErr(st, nodeID) # ErrNone
    THEN st
    ELSE ManagerUpdateNode(st, nodeID,
                           [st.nodes[nodeID] EXCEPT !.Status = status, !.LastSeen = t], t)

(***************************************************************************)
(* checkNodeTimeouts.  The loop ranges over a Go map, in any order; the    *)
(* nodes it marks and the nodes it queues are decided per node from the    *)
(* state before the loop, and marking and removing commute, so the sets    *)
(* below are processed in an arbitrary fixed order.                        *)
(***************************************************************************)
\* Mutant: only offline nodes are cleaned up, nodes in error never.
ShouldCleanupOfflineOnly(node, t) ==
    /\ node.Status = NodeStatusOffline
    /\ t - node.LastSeen > CleanupDuration

\* Mutant: an offline or failed node is cleaned up whatever its age.
ShouldCleanupAtOnce(node, t) ==
    node.Status = NodeStatusOffline \/ node.Status = NodeStatusError

ShouldCleanup(node, t) ==
    /\ node.Status = NodeStatusOffline \/ node.Status = NodeStatusError
    /\ t - node.LastSeen > CleanupDuration

\* Mutant: the online check compares against the cleanup duration.
ShouldTimeoutAfterCleanup(node, t) ==
    /\ ~ShouldCleanup(node, t)
    /\ node.Status = NodeStatusOnline
    /\ t - node.LastSeen > CleanupDuration

ShouldTimeout(node, t) ==
    /\ ~ShouldCleanup(node, t)
    /\ node.Status = NodeStatusOnline
    /\ t - node.LastSeen > TimeoutDuration

RECURSIVE MarkOffline(_, _, _)
MarkOffline(st, ids, t) ==
    IF ids = {}
    THEN st
    ELSE LET n == CHOOSE x \in ids : TRUE
             st1 == [st EXCEPT !.nodes[n].Status = NodeStatusOffline,
                               !.nodes[n].UpdatedAt = t]
             st2 == IF st1.nodes[n].DomainID \in DOMAIN st1.domains
                    THEN updateDomainResourceTagsUnsafe(st1, st1.nodes[n].DomainID, t)
                    ELSE st1
         IN MarkOffline(st2, ids \ {n}, t)

RECURSIVE RemoveAll(_, _, _)
RemoveAll(st, ids, t) ==
    IF ids = {}
    THEN st
    ELSE LET n == CHOOSE x \in ids : TRUE
         IN RemoveAll(removeNodeUnsafe(st, n, t), ids \ {n}, t)

\* Mutant: the nodes to remove are picked after the timed-out ones were marked.
checkNodeTimeoutsRemovesMarked(st, t) ==
    LET timedOut == {n \in DOMAIN st.nodes : ShouldTimeout(st.nodes[n], t)}
        marked == MarkOffline(st, timedOut, t)
        nodesToRemove == {n \in DOMAIN marked.nodes : ShouldCleanup(marked.nodes[n], t)}
    IN RemoveAll(marked, nodesToRemove, t)

checkNodeTimeouts(st, t) ==
    LET nodesToRemove == {n \in DOMAIN st.nodes : ShouldCleanup(st.nodes[n], t)}
        timedOut == {n \in DOMAIN st.nodes : ShouldTimeout(st.nodes[n], t)}
    IN RemoveAll(MarkOffline(st, timedOut, t), nodesToRemove, t)

(***************************************************************************)
(* Requests                                                                *)
(***************************************************************************)
ReqNodeIDs == NodeIDs \cup {""}
ReqDomainIDs == DomainIDs \cup {""}
Addresses == {"", "10.0.0.1:50051"}
DomainNames == {"", "prod"}
Descriptions == {"edge"}
Statuses == {NodeStatusOnline, NodeStatusOffline, NodeStatusError}

ProtoStatuses == {"NODE_STATUS_UNKNOWN", "NODE_STATUS_ONLINE", "NODE_STATUS_OFFLINE", "NODE_STATUS_ERROR"}

\* A *registrypb.ResourceTags of a request: nil, or the four flags.
ProtoTags == {NilTags,
              NewResourceTags(TRUE, FALSE, FALSE, FALSE),
              NewResourceTags(FALSE, TRUE, FALSE, TRUE)}

convertProtoNodeStatus(status) ==
    CASE status = "NODE_STATUS_ONLINE" -> NodeStatusOnline
      [] status = "NODE_STATUS_OFFLINE" -> NodeStatusOffline
      [] status = "NODE_STATUS_ERROR" -> NodeStatusError
      [] OTHER -> NodeStatusOffline

convertProtoResourceTags(tags) ==
    IF tags.isNil
    THEN NewEmptyResourceTags
    ELSE NewResourceTags(tags.CPU, tags.GPU, tags.Memory, tags.Camera)

Idle == [op |-> "", pc |-> "idle", node |-> "", domain |-> "", status |-> "", err |-> ErrNone]

Store == [domains |-> domains, nodes |-> nodes]

SetStore(st) ==
    /\ domains' = st.domains
    /\ nodes' = st.nodes

NewDomain(id, name, description, t) ==
    [ID |-> id, Name |-> name, Description |-> description,
     ResourceTags |-> NewEmptyResourceTags, HeadNodeID |-> NoNode,
     NodeIDs |-> <<>>, CreatedAt |-> t, UpdatedAt |-> t]

(***************************************************************************)
(* Persistence adapter: the domains table, keyed by id.  The driver writes *)
(* a timestamp as text, to the nanosecond and with its zone offset, and    *)
(* reads it back as the same instant; the clock of the model counts whole  *)
(* seconds.                                                                *)
(***************************************************************************)
FormatTimestamp(t) == [seconds |-> t, nanos |-> 0, offset |-> "+00:00"]

ParseTimestamp(col) == col.seconds

DomainDAO(domain) ==
    [ID |-> domain.ID, Name |-> domain.Name, Description |-> domain.Description,
     CreatedAt |-> domain.CreatedAt, UpdatedAt |-> domain.UpdatedAt]

\* INSERT INTO domains: fails when the database fails or the id is taken.
RepoCreateDomainErr(rp, dao, dbFails) ==
    IF dbFails \/ dao.ID \in DOMAIN rp THEN ErrInsert ELSE ErrNone

RepoCreateDomain(rp, dao, dbFails) ==
    IF RepoCreateDomainErr(rp, dao, dbFails) # ErrNone
    THEN rp
    ELSE Put(rp, dao.ID, [id |-> dao.ID, name |-> dao.Name, description |-> dao.Description,
                          created_at |-> FormatTimestamp(dao.CreatedAt),
                          updated_at |-> FormatTimestamp(dao.UpdatedAt)])

\* SELECT ... FROM domains, scanned into DAOs.
RepoGetAllDomains(rp) ==
    {[ID |-> rp[k].id, Name |-> rp[k].name, Description |-> rp[k].description,
      CreatedAt |-> ParseTimestamp(rp[k].created_at),
      UpdatedAt |-> ParseTimestamp(rp[k].updated_at)] : k \in DOMAIN rp}

\* Mutant: a loaded domain is stamped with the time of loading.
LoadedDomainStampedNow(dao, t) ==
    [ID |-> dao.ID, Name |-> dao.Name, Description |-> dao.Description,
     ResourceTags |-> NewResourceTags(FALSE, FALSE, FALSE, FALSE), HeadNodeID |-> NoNode,
     NodeIDs |-> <<>>, CreatedAt |-> t, UpdatedAt |-> t]

\* The Domain LoadDomains builds from a row.
LoadedDomain(dao, t) ==
    [ID |-> dao.ID, Name |-> dao.Name, Description |-> dao.Description,
     ResourceTags |-> NewResourceTags(FALSE, FALSE, FALSE, FALSE), HeadNodeID |-> NoNode,
     NodeIDs |-> <<>>, CreatedAt |-> dao.CreatedAt, UpdatedAt |-> dao.UpdatedAt]

\* LoadDomains adds the rows one by one; a row whose id is in the store is
\* skipped, so the order of the rows does not matter to the result.
RECURSIVE LoadAll(_, _, _)
LoadAll(st, daos, t) ==
    IF daos = {}
    THEN st
    ELSE LET dao == CHOOSE x \in daos : TRUE
         IN LoadAll(ManagerAddDomain(st, LoadedDomain(dao, t)), daos \ {dao}, t)

LoadDomains(st, rp, t) == LoadAll(st, RepoGetAllDomains(rp), t)

\* The store of a new Manager.
NewManager == [domains |-> <<>>, nodes |-> <<>>]

(***************************************************************************)
(* Scheduler: the state of a DeployComponent call                          *)
(***************************************************************************)
NilRequest == [isNil |-> TRUE]

NoResponse == [isNil |-> TRUE]

NilInfo == [isNil |-> TRUE]

\* A *resourcepb.Info: the demand and the required tags of a request.
Info(cpu, memory, gpu, tags) ==
    [isNil |-> FALSE, Cpu |-> cpu, Memory |-> memory, Gpu |-> gpu, Tags |-> tags]

DeployComponentRequest(resourceRequest) == [isNil |-> FALSE, ResourceRequest |-> resourceRequest]

\* The capacity snapshot of a node: nil, or Total and Available, each nil or a
\* vector of CPU millicores, memory bytes and GPU count.
NilCapacity == [isNil |-> TRUE]

NilVector == [isNil |-> TRUE]

ResourceVector(cpu, memory, gpu) == [isNil |-> FALSE, CPU |-> cpu, Memory |-> memory, GPU |-> gpu]

ResourceCapacity(total, available) == [isNil |-> FALSE, Total |-> total, Available |-> available]

\* The ResourceCapacity field of a node; a node built without it holds nil.
CapacityOf(node) ==
    IF "ResourceCapacity" \in DOMAIN node THEN node.ResourceCapacity ELSE NilCapacity

WithCapacity(node, capacity) ==
    [f \in (DOMAIN node) \cup {"ResourceCapacity"} |->
        IF f = "ResourceCapacity" THEN capacity ELSE node[f]]

\* Clone copies the node by value.
Clone(node) == WithCapacity(node, CapacityOf(node))

\* Mutant: a nil capacity counts as enough.
hasSufficientResourcesNilPasses(capacity, req) ==
    IF capacity.isNil \/ req.isNil
    THEN TRUE
    ELSE IF capacity.Available.isNil
         THEN TRUE
         ELSE /\ ~(capacity.Available.CPU < req.Cpu)
              /\ ~(capacity.Available.Memory < req.Memory)
              /\ ~(capacity.Available.GPU < req.Gpu)

hasSufficientResources(capacity, req) ==
    IF capacity.isNil \/ req.isNil
    THEN FALSE
    ELSE IF capacity.Available.isNil
         THEN FALSE
         ELSE /\ ~(capacity.Available.CPU < req.Cpu)
              /\ ~(capacity.Available.Memory < req.Memory)
              /\ ~(capacity.Available.GPU < req.Gpu)

\* strings.ToLower on the tag spellings of the model.
ToLower(tag) ==
    CASE tag = "CPU" -> "cpu"
      [] tag = "Gpu" -> "gpu"
      [] tag = "MEMORY" -> "memory"
      [] tag = "Camera" -> "camera"
      [] OTHER -> tag

\* Mutant: a tag outside the vocabulary counts as held.
tagHeldUnknownPasses(nodeTags, tag) ==
    CASE ToLower(tag) = "cpu" -> nodeTags.CPU
      [] ToLower(tag) = "gpu" -> nodeTags.GPU
      [] ToLower(tag) = "memory" -> nodeTags.Memory
      [] ToLower(tag) = "camera" -> nodeTags.Camera
      [] OTHER -> TRUE

tagHeld(nodeTags, tag) ==
    CASE ToLower(tag) = "cpu" -> nodeTags.CPU
      [] ToLower(tag) = "gpu" -> nodeTags.GPU
      [] ToLower(tag) = "memory" -> nodeTags.Memory
      [] ToLower(tag) = "camera" -> nodeTags.Camera
      [] OTHER -> FALSE

nodeHasRequiredTags(nodeTags, required) ==
    IF Len(required) = 0
    THEN TRUE
    ELSE IF nodeTags.isNil
         THEN FALSE
         ELSE \A i \in 1..Len(required) : tagHeld(nodeTags, required[i])

\* The checks selectRandomNode makes on a node before it keeps it.
passesFilter(node, resourceReq) ==
    /\ node.Status = NodeStatusOnline
    /\ node.Address # ""
    /\ (Len(resourceReq.Tags) > 0 => nodeHasRequiredTags(node.ResourceTags, resourceReq.Tags))
    /\ hasSufficientResources(CapacityOf(node), resourceReq)

\* Mutant: a failure is reported as a success.
failureResponseSuccess(msg) == [isNil |-> FALSE, Success |-> TRUE, Error |-> msg]

failureResponse(msg) == [isNil |-> FALSE, Success |-> FALSE, Error |-> msg]

MsgRequestRequired == "request is required"
MsgResourceRequestRequired == "resource_request is required"
MsgNoCapacity == "no domain has nodes with sufficient capacity"
MsgDialFailed == "node dispatch failed: failed to dial head node"
MsgCallFailed == "node dispatch failed: rpc error"

\* A pointer the scheduler holds to a node of the store.  While the node is in
\* the store the pointer reads the store's object; once the node is removed the
\* object lives on with the fields it had.
Pointer(id) == [id |-> id, live |-> TRUE]

Deref(ns, p) == IF p.live THEN ns[p.id] ELSE p.obj

\* The pointers after the store went from ns to ns2.
Detach(s, ns, ns2) ==
    [s EXCEPT !.fetched =
        [i \in 1..Len(@) |->
            IF @[i].live /\ @[i].id \notin DOMAIN ns2
            THEN [id |-> @[i].id, live |-> FALSE, obj |-> ns[@[i].id]]
            ELSE @[i]]]

SchedIdle ==
    [pc |-> "idle", req |-> NilRequest, todo |-> <<>>, fetched |-> <<>>, eligible |-> <<>>,
     candidates |-> <<>>, target |-> NoNode, resp |-> NoResponse, rpcErr |-> ErrNone]

Init ==
    /\ domains = NewManager.domains
    /\ nodes = NewManager.nodes
    /\ now = 0
    /\ nextSweep = SweepInterval
    /\ genCount = 0
    /\ calls = [c \in Clients |-> Idle]
    /\ repo = <<>>
    /\ created = <<>>
    /\ sched = SchedIdle
    /\ dials = <<>>

(***************************************************************************)
(* Registry service (command facade)                                       *)
(***************************************************************************)
\* CreateDomain run as a whole: the store and the table it leaves, the error
\* and the domain it returns.
CreateDomainRun(st, rp, id, name, description, dbFails, t) ==
    LET domain == NewDomain(id, name, description, t) IN
    IF name = ""
    THEN [st |-> st, repo |-> rp, err |-> ErrInvalidResourceTags]
    ELSE IF RepoCreateDomainErr(rp, DomainDAO(domain), dbFails) # ErrNone
         THEN [st |-> st, repo |-> rp, err |-> ErrPersist]
         ELSE [st |-> ManagerAddDomain(st, domain),
               repo |-> RepoCreateDomain(rp, DomainDAO(domain), dbFails),
               err |-> AddDomainErr(st, domain)]

\* The generated ID is fresh; the model takes the next one of the pool when a
\* domain is created.
CreateDomain(name, description, dbFails) ==
    /\ genCount < MaxDomains
    /\ LET id == DomainIDPool[genCount + 1]
           run == CreateDomainRun(Store, repo, id, name, description, dbFails, now)
       IN /\ SetStore(run.st)
          /\ repo' = run.repo
          /\ genCount' = IF run.err = ErrNone THEN genCount + 1 ELSE genCount
          /\ created' = IF run.err = ErrNone
                        THEN Put(created, id, NewDomain(id, name, description, now))
                        ELSE created
    /\ UNCHANGED <<now, nextSweep, calls, sched, dials>>

\* UpdateDomain changes the domain that GetDomain returned; nothing is written
\* to the table.
UpdateDomain(domainID, name, description) ==
    /\ domainID \in DOMAIN domains
    /\ domains' = [domains EXCEPT ![domainID] =
                      [@ EXCEPT !.Name = IF name # "" THEN name ELSE @,
                                !.Description = IF description # "" THEN description ELSE @,
                                !.UpdatedAt = now]]
    /\ UNCHANGED <<nodes, now, nextSweep, genCount, calls, repo, created, sched, dials>>

\* The process stops and starts again: a new Manager, LoadDomains, a new ticker.
Restart ==
    /\ SetStore(LoadDomains(NewManager, repo, now))
    /\ nextSweep' = now + SweepInterval
    /\ calls' = [c \in Clients |-> Idle]
    /\ sched' = SchedIdle
    /\ dials' = <<>>
    /\ UNCHANGED <<now, genCount, repo, created>>

DeleteDomain(domainID) ==
    /\ SetStore(ManagerRemoveDomain(Store, domainID))
    /\ UNCHANGED <<now, nextSweep, genCount, calls, repo, created, dials>>
    /\ sched' = Detach(sched, nodes, nodes')

(***************************************************************************)
(* Direct store operations                                                 *)
(***************************************************************************)
RemoveNode(nodeID) ==
    /\ SetStore(ManagerRemoveNode(Store, nodeID, now))
    /\ UNCHANGED <<now, nextSweep, genCount, calls, repo, created, dials>>
    /\ sched' = Detach(sched, nodes, nodes')

\* AddNode called with a node that carries no ResourceTags (a nil pointer).
AddNode(nodeID, domainID, isHead, status) ==
    /\ SetStore(ManagerAddNode(Store,
           [ID |-> nodeID, DomainID |-> domainID, Name |-> nodeID, Address |-> "",
            IsHead |-> isHead, Status |-> status, ResourceTags |-> NilTags,
            LastSeen |-> now, CreatedAt |-> now, UpdatedAt |-> now], now))
    /\ UNCHANGED <<now, nextSweep, genCount, calls, repo, created, sched, dials>>

(***************************************************************************)
(* Heartbeat intake RPC server: building blocks                            *)
(***************************************************************************)
\* The node RegisterNode constructs.
RegisteredNode(domainID, nodeID, nodeName, t) ==
    [ID |-> nodeID, DomainID |-> domainID, Name |-> nodeName,
     Address |-> "", IsHead |-> FALSE, Status |-> NodeStatusOffline,
     ResourceTags |-> NewEmptyResourceTags,
     LastSeen |-> t, CreatedAt |-> t, UpdatedAt |-> t]

\* Mutant: an auto-registered node is never a head node.
AutoRegisteredNodeNotHead(domainID, nodeID, address, isHead, status, tags, t) ==
    [ID |-> nodeID, DomainID |-> domainID, Name |-> nodeID,
     Address |-> address, IsHead |-> FALSE,
     Status |-> convertProtoNodeStatus(status),
     ResourceTags |-> convertProtoResourceTags(tags),
     LastSeen |-> t, CreatedAt |-> t, UpdatedAt |-> t]

\* The node HealthCheck constructs for an unknown node ID.
AutoRegisteredNode(domainID, nodeID, address, isHead, status, tags, t) ==
    [ID |-> nodeID, DomainID |-> domainID, Name |-> nodeID,
     Address |-> address, IsHead |-> isHead,
     Status |-> convertProtoNodeStatus(status),
     ResourceTags |-> convertProtoResourceTags(tags),
     LastSeen |-> t, CreatedAt |-> t, UpdatedAt |-> t]

\* Mutant: the closure copies is_head of the request, also when it is false.
HealthCheckUpdateCopiesHead(n, address, isHead, status, tags, t) ==
    [n EXCEPT !.Status = convertProtoNodeStatus(status),
              !.LastSeen = t,
              !.UpdatedAt = t,
              !.Address = IF address # "" THEN address ELSE @,
              !.ResourceTags = IF ~tags.isNil THEN convertProtoResourceTags(tags) ELSE @,
              !.IsHead = isHead]

\* The closure HealthCheck passes to UpdateNode.
HealthCheckUpdate(n, address, isHead, status, tags, t) ==
    [n EXCEPT !.Status = convertProtoNodeStatus(status),
              !.LastSeen = t,
              !.UpdatedAt = t,
              !.Address = IF address # "" THEN address ELSE @,
              !.ResourceTags = IF ~tags.isNil THEN convertProtoResourceTags(tags) ELSE @,
              !.IsHead = IF isHead THEN TRUE ELSE @]

(***************************************************************************)
(* Heartbeat intake RPC server: a handler run as a whole.  The result is   *)
(* the store it leaves and the error it returns.                           *)
(***************************************************************************)
RegisterNodeRun(st, domainID, nodeID, nodeName, t) ==
    IF domainID = "" \/ nodeID = "" \/ nodeName = ""
    THEN [st |-> st, err |-> ErrFieldRequired]
    ELSE IF GetDomainErr(st.domains, domainID) # ErrNone
         THEN [st |-> st, err |-> ErrDomainNotFound]
         ELSE LET node == RegisteredNode(domainID, nodeID, nodeName, t)
              IN [st |-> ManagerAddNode(st, node, t), err |-> AddNodeErr(st, node)]

\* Mutant: a known node that names another existing domain is moved there.
HealthCheckRunMoves(st, nodeID, domainID, address, isHead, status, tags, t) ==
    IF nodeID = "" \/ domainID = ""
    THEN [st |-> st, err |-> ErrFieldRequired]
    ELSE IF GetNodeErr(st.nodes, nodeID) # ErrNone
         THEN IF GetDomainErr(st.domains, domainID) # ErrNone
              THEN [st |-> st, err |-> ErrDomainNotFound]
              ELSE LET node == AutoRegisteredNode(domainID, nodeID, address, isHead, status, tags, t)
                   IN [st |-> ManagerAddNode(st, node, t), err |-> AddNodeErr(st, node)]
         ELSE IF domainID \in DOMAIN st.domains /\ domainID # st.nodes[nodeID].DomainID
              THEN LET node == AutoRegisteredNode(domainID, nodeID, address, isHead, status, tags, t)
                   IN [st |-> ManagerAddNode(ManagerRemoveNode(st, nodeID, t), node, t), err |-> ErrNone]
              ELSE LET st1 == ManagerUpdateNode(st, nodeID,
                                  HealthCheckUpdate(st.nodes[nodeID], address, isHead, status, tags, t), t)
                   IN [st |-> ManagerUpdateNodeStatus(st1, nodeID, convertProtoNodeStatus(status), t),
                       err |-> ErrNone]

HealthCheckRun(st, nodeID, domainID, address, isHead, status, tags, t) ==
    IF nodeID = "" \/ domainID = ""
    THEN [st |-> st, err |-> ErrFieldRequired]
    ELSE IF GetNodeErr(st.nodes, nodeID) # ErrNone
         THEN IF GetDomainErr(st.domains, domainID) # ErrNone
              THEN [st |-> st, err |-> ErrDomainNotFound]
              ELSE LET node == AutoRegisteredNode(domainID, nodeID, address, isHead, status, tags, t)
                   IN [st |-> ManagerAddNode(st, node, t), err |-> AddNodeErr(st, node)]
         ELSE LET st1 == ManagerUpdateNode(st, nodeID,
                             HealthCheckUpdate(st.nodes[nodeID], address, isHead, status, tags, t), t)
              IN [st |-> ManagerUpdateNodeStatus(st1, nodeID, convertProtoNodeStatus(status), t),
                  err |-> ErrNone]

RegisterNode(domainID, nodeID, nodeName) ==
    /\ SetStore(RegisterNodeRun(Store, domainID, nodeID, nodeName, now).st)
    /\ UNCHANGED <<now, nextSweep, genCount, calls, repo, created, sched, dials>>

HealthCheck(nodeID, domainID, address, isHead, status, tags) ==
    /\ SetStore(HealthCheckRun(Store, nodeID, domainID, address, isHead, status, tags, now).st)
    /\ UNCHANGED <<now, nextSweep, genCount, calls, repo, created, sched, dials>>

(***************************************************************************)
(* Heartbeat intake RPC server: a handler as the steps of a client task.   *)
(* Each step is one Manager call; the last one leaves the error in the     *)
(* call record, and Return hands it to the caller.                         *)
(***************************************************************************)
Begin(c, op, pc, nodeID, domainID) ==
    calls' = [calls EXCEPT ![c] = [Idle EXCEPT !.op = op, !.pc = pc,
                                               !.node = nodeID, !.domain = domainID]]

Finish(c, op, nodeID, domainID, err) ==
    calls' = [calls EXCEPT ![c] = [Idle EXCEPT !.op = op, !.pc = "return", !.node = nodeID,
                                               !.domain = domainID, !.err = err]]

RegisterNode_GetDomain(c, domainID, nodeID, nodeName) ==
    /\ calls[c].pc = "idle"
    /\ IF domainID = "" \/ nodeID = "" \/ nodeName = ""
       THEN Finish(c, "RegisterNode", nodeID, domainID, ErrFieldRequired)
       ELSE IF GetDomainErr(domains, domainID) # ErrNone
            THEN Finish(c, "RegisterNode", nodeID, domainID, ErrDomainNotFound)
            ELSE Begin(c, "RegisterNode", "AddNode", nodeID, domainID)
    /\ UNCHANGED <<domains, nodes, now, nextSweep, genCount, repo, created, sched, dials>>

RegisterNode_AddNode(c, nodeName) ==
    /\ calls[c].op = "RegisterNode"
    /\ calls[c].pc = "AddNode"
    /\ LET node == RegisteredNode(calls[c].domain, calls[c].node, nodeName, now)
       IN /\ Finish(c, "RegisterNode", calls[c].node, calls[c].domain, AddNodeErr(Store, node))
          /\ SetStore(ManagerAddNode(Store, node, now))
    /\ UNCHANGED <<now, nextSweep, genCount, repo, created, sched, dials>>

HealthCheck_GetNode(c, nodeID, domainID) ==
    /\ calls[c].pc = "idle"
    /\ IF nodeID = "" \/ domainID = ""
       THEN Finish(c, "HealthCheck", nodeID, domainID, ErrFieldRequired)
       ELSE IF GetNodeErr(nodes, nodeID) # ErrNone
            THEN Begin(c, "HealthCheck", "GetDomain", nodeID, domainID)
            ELSE Begin(c, "HealthCheck", "UpdateNode", nodeID, domainID)
    /\ UNCHANGED <<domains, nodes, now, nextSweep, genCount, repo, created, sched, dials>>

HealthCheck_GetDomain(c) ==
    /\ calls[c].op = "HealthCheck"
    /\ calls[c].pc = "GetDomain"
    /\ IF GetDomainErr(domains, calls[c].domain) # ErrNone
       THEN Finish(c, "HealthCheck", calls[c].node, calls[c].domain, ErrDomainNotFound)
       ELSE calls' = [calls EXCEPT ![c].pc = "AddNode"]
    /\ UNCHANGED <<domains, nodes, now, nextSweep, genCount, repo, created, sched, dials>>

HealthCheck_AddNode(c, address, isHead, status, tags) ==
    /\ calls[c].op = "HealthCheck"
    /\ calls[c].pc = "AddNode"
    /\ LET node == AutoRegisteredNode(calls[c].domain, calls[c].node,
                                      address, isHead, status, tags, now)
       IN /\ Finish(c, "HealthCheck", calls[c].node, calls[c].domain, AddNodeErr(Store, node))
          /\ SetStore(ManagerAddNode(Store, node, now))
    /\ UNCHANGED <<now, nextSweep, genCount, repo, created, sched, dials>>

HealthCheck_UpdateNode(c, address, isHead, status, tags) ==
    /\ calls[c].op = "HealthCheck"
    /\ calls[c].pc = "UpdateNode"
    /\ IF UpdateNodeErr(Store, calls[c].node) # ErrNone
       THEN /\ Finish(c, "HealthCheck", calls[c].node, calls[c].domain, ErrNodeNotFound)
            /\ UNCHANGED <<domains, nodes>>
       ELSE /\ calls' = [calls EXCEPT ![c].pc = "UpdateNodeStatus",
                                      ![c].status = convertProtoNodeStatus(status)]
            /\ SetStore(ManagerUpdateNode(Store, calls[c].node,
                   HealthCheckUpdate(nodes[calls[c].node], address, isHead, status, tags, now),
                   now))
    /\ UNCHANGED <<now, nextSweep, genCount, repo, created, sched, dials>>

\* An error of UpdateNodeStatus is logged, not returned.
HealthCheck_UpdateNodeStatus(c) ==
    /\ calls[c].op = "HealthCheck"
    /\ calls[c].pc = "UpdateNodeStatus"
    /\ Finish(c, "HealthCheck", calls[c].node, calls[c].domain, ErrNone)
    /\ SetStore(ManagerUpdateNodeStatus(Store, calls[c].node, calls[c].status, now))
    /\ UNCHANGED <<now, nextSweep, genCount, repo, created, sched, dials>>

Return(c) ==
    /\ calls[c].pc = "return"
    /\ calls' = [calls EXCEPT ![c] = Idle]
    /\ UNCHANGED <<domains, nodes, now, nextSweep, genCount, repo, created, sched, dials>>

(***************************************************************************)
(* Domain service: CreateDomain as the steps of a client task, the write   *)
(* to the table first and the insert into the store second.                *)
(***************************************************************************)
\* The call record of a CreateDomain that has built its domain.
BeginCreate(c, pc, domain) ==
    calls' = [calls EXCEPT ![c] =
                 [op |-> "CreateDomain", pc |-> pc, node |-> "", domain |-> domain.ID,
                  status |-> "", err |-> ErrNone, obj |-> domain]]

\* Mutant: the error of the table is dropped and the call goes on.
CreateDomain_PersistIgnoresErr(c, name, description, dbFails) ==
    /\ calls[c].pc = "idle"
    /\ genCount < MaxDomains
    /\ LET domain == NewDomain(DomainIDPool[genCount + 1], name, description, now)
       IN IF name = ""
          THEN /\ Finish(c, "CreateDomain", "", "", ErrInvalidResourceTags)
               /\ UNCHANGED <<repo, genCount>>
          ELSE /\ repo' = RepoCreateDomain(repo, DomainDAO(domain), dbFails)
               /\ genCount' = genCount + 1
               /\ BeginCreate(c, "AddDomain", domain)
    /\ UNCHANGED <<domains, nodes, now, nextSweep, created, sched, dials>>

CreateDomain_Persist(c, name, description, dbFails) ==
    /\ calls[c].pc = "idle"
    /\ genCount < MaxDomains
    /\ LET domain == NewDomain(DomainIDPool[genCount + 1], name, description, now)
       IN IF name = ""
          THEN /\ Finish(c, "CreateDomain", "", "", ErrInvalidResourceTags)
               /\ UNCHANGED <<repo, genCount>>
          ELSE IF RepoCreateDomainErr(repo, DomainDAO(domain), dbFails) # ErrNone
               THEN /\ Finish(c, "CreateDomain", "", domain.ID, ErrPersist)
                    /\ UNCHANGED <<repo, genCount>>
               ELSE /\ repo' = RepoCreateDomain(repo, DomainDAO(domain), dbFails)
                    /\ genCount' = genCount + 1
                    /\ BeginCreate(c, "AddDomain", domain)
    /\ UNCHANGED <<domains, nodes, now, nextSweep, created, sched, dials>>

CreateDomain_AddDomain(c) ==
    /\ calls[c].op = "CreateDomain"
    /\ calls[c].pc = "AddDomain"
    /\ LET domain == calls[c].obj
       IN /\ Finish(c, "CreateDomain", "", domain.ID, AddDomainErr(Store, domain))
          /\ SetStore(ManagerAddDomain(Store, domain))
          /\ created' = IF AddDomainErr(Store, domain) = ErrNone
                        THEN Put(created, domain.ID, domain)
                        ELSE created
    /\ UNCHANGED <<now, nextSweep, genCount, repo, sched, dials>>

(***************************************************************************)
(* Heartbeat that reports capacity: the HealthCheck handler, which then    *)
(* stores the capacity of the request when one is supplied.                *)
(***************************************************************************)
HealthCheckCapacityRun(st, nodeID, domainID, address, isHead, status, tags, capacity, t) ==
    LET r == HealthCheckRun(st, nodeID, domainID, address, isHead, status, tags, t) IN
    IF r.err # ErrNone \/ capacity.isNil
    THEN r
    ELSE [st |-> [r.st EXCEPT !.nodes[nodeID] = WithCapacity(@, capacity)], err |-> r.err]

HealthCheckCapacity(nodeID, domainID, address, isHead, status, tags, capacity) ==
    /\ SetStore(HealthCheckCapacityRun(Store, nodeID, domainID, address, isHead, status, tags,
                                       capacity, now).st)
    /\ UNCHANGED <<now, nextSweep, genCount, calls, repo, created, sched, dials>>

(***************************************************************************)
(* Scheduler: DeployComponent as the steps of one task.  The store is read *)
(* under its lock by GetAllDomains and GetNodesByDomain; the nodes that    *)
(* GetNodesByDomain returns are the objects of the store, and each is      *)
(* checked and then cloned without the lock.  The four reads of a check    *)
(* are one step, the clone is another.                                     *)
(***************************************************************************)
\* The orders in which GetAllDomains can return the domains of the map.
Orders(S) ==
    {o \in [1..Cardinality(S) -> S] : \A i, j \in 1..Cardinality(S) : o[i] = o[j] => i = j}

\* The nodes GetNodesByDomain returns: those of NodeIDs that are in the store.
GetNodesByDomain(st, domainID) ==
    LET ids == SelectSeq(st.domains[domainID].NodeIDs, LAMBDA n : n \in DOMAIN st.nodes)
    IN [i \in 1..Len(ids) |-> Pointer(ids[i])]

\* Mutant: a domain becomes a candidate once for each node kept.
NextNodePerNode(s, kept) ==
    IF Len(s.fetched) > 1
    THEN [s EXCEPT !.pc = "nodes", !.fetched = Tail(@), !.eligible = kept]
    ELSE [s EXCEPT !.pc = "domains", !.fetched = <<>>, !.eligible = <<>>,
                   !.todo = Tail(@),
                   !.candidates = @ \o [k \in 1..Len(kept) |->
                                           [domainID |-> Head(s.todo), nodes |-> <<kept[k]>>]]]

\* The loop over the nodes of a domain moves on, kept holding the nodes kept so
\* far; after the last node the domain becomes a candidate if any was kept.
NextNode(s, kept) ==
    IF Len(s.fetched) > 1
    THEN [s EXCEPT !.pc = "nodes", !.fetched = Tail(@), !.eligible = kept]
    ELSE [s EXCEPT !.pc = "domains", !.fetched = <<>>, !.eligible = <<>>,
                   !.todo = Tail(@),
                   !.candidates = IF Len(kept) > 0
                                  THEN Append(@, [domainID |-> Head(s.todo), nodes |-> kept])
                                  ELSE @]

\* Mutant: the request sent downstream is not the one received.
forwardToNodeOtherRequest(node, req, dialFails, outcome) ==
    IF dialFails
    THEN [sent |-> NilRequest, resp |-> NoResponse, err |-> MsgDialFailed]
    ELSE IF outcome.isNil
         THEN [sent |-> DeployComponentRequest(NilInfo), resp |-> NoResponse, err |-> MsgCallFailed]
         ELSE [sent |-> DeployComponentRequest(NilInfo), resp |-> outcome, err |-> ErrNone]

\* forwardToNode: the request sent on the connection, the response and the
\* error.  The downstream call returns a response, or none and an error.
forwardToNode(node, req, dialFails, outcome) ==
    IF dialFails
    THEN [sent |-> NilRequest, resp |-> NoResponse, err |-> MsgDialFailed]
    ELSE IF outcome.isNil
         THEN [sent |-> req, resp |-> NoResponse, err |-> MsgCallFailed]
         ELSE [sent |-> req, resp |-> outcome, err |-> ErrNone]

Returning(s, resp) == [s EXCEPT !.pc = "return", !.resp = resp, !.rpcErr = ErrNone]

Sched_Begin(req, order) ==
    /\ sched.pc = "idle"
    /\ order \in Orders(DOMAIN domains)
    /\ sched' = IF req.isNil
                THEN Returning([SchedIdle EXCEPT !.req = req], failureResponse(MsgRequestRequired))
                ELSE IF req.ResourceRequest.isNil
                     THEN Returning([SchedIdle EXCEPT !.req = req],
                                    failureResponse(MsgResourceRequestRequired))
                     ELSE [SchedIdle EXCEPT !.pc = "domains", !.req = req, !.todo = order]
    /\ dials' = <<>>
    /\ UNCHANGED <<domains, nodes, now, nextSweep, genCount, calls, repo, created>>

Sched_GetNodesByDomain ==
    /\ sched.pc = "domains"
    /\ Len(sched.todo) > 0
    /\ LET d == Head(sched.todo) IN
       IF GetDomainErr(domains, d) # ErrNone
       THEN sched' = [sched EXCEPT !.todo = Tail(@)]
       ELSE IF Len(GetNodesByDomain(Store, d)) = 0
            THEN sched' = [sched EXCEPT !.todo = Tail(@)]
            ELSE sched' = [sched EXCEPT !.pc = "nodes", !.fetched = GetNodesByDomain(Store, d),
                                        !.eligible = <<>>]
    /\ UNCHANGED <<domains, nodes, now, nextSweep, genCount, calls, repo, created, dials>>

Sched_CheckNode ==
    /\ sched.pc = "nodes"
    /\ sched' = IF passesFilter(Deref(nodes, Head(sched.fetched)), sched.req.ResourceRequest)
                THEN [sched EXCEPT !.pc = "clone"]
                ELSE NextNode(sched, sched.eligible)
    /\ UNCHANGED <<domains, nodes, now, nextSweep, genCount, calls, repo, created, dials>>

Sched_Clone ==
    /\ sched.pc = "clone"
    /\ sched' = NextNode(sched, Append(sched.eligible, Clone(Deref(nodes, Head(sched.fetched)))))
    /\ UNCHANGED <<domains, nodes, now, nextSweep, genCount, calls, repo, created, dials>>

\* The two draws of selectRandomNode: i among the candidates, j among the nodes
\* of candidate i.
Sched_Draw(i, j) ==
    /\ sched.pc = "domains"
    /\ Len(sched.todo) = 0
    /\ IF Len(sched.candidates) = 0
       THEN sched' = Returning(sched, failureResponse(MsgNoCapacity))
       ELSE /\ i \in 1..Len(sched.candidates)
            /\ j \in 1..Len(sched.candidates[i].nodes)
            /\ sched' = [sched EXCEPT !.pc = "forward", !.target = sched.candidates[i].nodes[j]]
    /\ UNCHANGED <<domains, nodes, now, nextSweep, genCount, calls, repo, created, dials>>

Sched_Forward(dialFails, outcome) ==
    /\ sched.pc = "forward"
    /\ LET r == forwardToNode(sched.target, sched.req, dialFails, outcome) IN
          /\ dials' = Append(dials, [node |-> sched.target, request |-> r.sent,
                                     reply |-> IF dialFails THEN NoResponse ELSE outcome])
          /\ sched' = IF r.err # ErrNone
                      THEN Returning(sched, failureResponse(r.err))
                      ELSE Returning(sched, r.resp)
    /\ UNCHANGED <<domains, nodes, now, nextSweep, genCount, calls, repo, created>>

Sched_Return ==
    /\ sched.pc = "return"
    /\ sched' = SchedIdle
    /\ dials' = <<>>
    /\ UNCHANGED <<domains, nodes, now, nextSweep, genCount, calls, repo, created>>

(***************************************************************************)
(* Liveness monitor and the clock                                          *)
(***************************************************************************)
\* The ticker fires at the multiples of SweepInterval; a tick the sweeper was
\* late for is taken when the sweeper next runs, and the ones missed meanwhile
\* are dropped.
Sweep ==
    /\ now >= nextSweep
    /\ SetStore(checkNodeTimeouts(Store, now))
    /\ nextSweep' = ((now \div SweepInterval) + 1) * SweepInterval
    /\ UNCHANGED <<now, genCount, calls, repo, created, dials>>
    /\ sched' = Detach(sched, nodes, nodes')

Tick(dt) ==
    /\ \A c \in Clients : calls[c].pc = "idle"
    /\ now + dt <= MaxTime
    /\ now' = now + dt
    /\ UNCHANGED <<domains, nodes, nextSweep, genCount, calls, repo, created, sched, dials>>

\* The clock of a sweeper that is never late: time does not pass a pending tick.
TimelyTick ==
    /\ now < nextSweep
    /\ Tick(Min(TickStep, nextSweep - now))

(***************************************************************************)
(* Spec: the store under every operation, each handler run as a whole,     *)
(* with no assumption on how late the sweeper runs.  Heartbeats carry no   *)
(* tags here.                                                              *)
(***************************************************************************)
Address1 == "10.0.0.1:50051"

Next ==
    \/ \E name \in DomainNames, description \in Descriptions, dbFails \in BOOLEAN :
          CreateDomain(name, description, dbFails)
    \/ \E d \in DomainIDs : DeleteDomain(d)
    \/ \E n \in NodeIDs : RemoveNode(n)
    \/ \E d \in ReqDomainIDs, n \in NodeIDs : RegisterNode(d, n, n)
    \/ \E n \in NodeIDs, d \in DomainIDs, h \in BOOLEAN,
          s \in ProtoStatuses \ {"NODE_STATUS_UNKNOWN"} :
          HealthCheck(n, d, Address1, h, s, NilTags)
    \/ Sweep
    \/ Tick(LateStep)

Spec == Init /\ [][Next]_vars

(***************************************************************************)
(* The store after LoadDomains has loaded one persisted domain.            *)
(***************************************************************************)
Domain1 == DomainIDPool[1]

\* The table that holds the given domains as they were created at time 0.
RepoOf(ids) ==
    [d \in ids |-> RepoCreateDomain(<<>>, DomainDAO(NewDomain(d, "prod", "edge", 0)), FALSE)[d]]

InitLoaded ==
    /\ repo = RepoOf({Domain1})
    /\ created = [d \in {Domain1} |-> NewDomain(d, "prod", "edge", 0)]
    /\ domains = LoadDomains(NewManager, repo, 0).domains
    /\ nodes = <<>>
    /\ now = 0
    /\ nextSweep = SweepInterval
    /\ genCount = 0
    /\ calls = [c \in Clients |-> Idle]
    /\ sched = SchedIdle
    /\ dials = <<>>

\* Every domain of the model loaded from the repository.
InitLoadedAll ==
    /\ repo = RepoOf(DomainIDs)
    /\ created = [d \in DomainIDs |-> NewDomain(d, "prod", "edge", 0)]
    /\ domains = LoadDomains(NewManager, repo, 0).domains
    /\ nodes = <<>>
    /\ now = 0
    /\ nextSweep = SweepInterval
    /\ genCount = MaxDomains
    /\ calls = [c \in Clients |-> Idle]
    /\ sched = SchedIdle
    /\ dials = <<>>

(***************************************************************************)
(* SpecTags: one domain whose nodes report different tags, or none.        *)
(***************************************************************************)
NextTags ==
    \/ \E n \in NodeIDs : RemoveNode(n)
    \/ \E n \in NodeIDs, s \in Statuses : AddNode(n, Domain1, FALSE, s)
    \/ \E n \in NodeIDs : RegisterNode(Domain1, n, n)
    \/ \E n \in NodeIDs, s \in {"NODE_STATUS_ONLINE", "NODE_STATUS_ERROR"}, t \in ProtoTags :
          HealthCheck(n, Domain1, Address1, FALSE, s, t)
    \/ Sweep
    \/ Tick(LateStep)

SpecTags == InitLoaded /\ [][NextTags]_vars

(***************************************************************************)
(* SpecTimed: the sweeper is never late.                                   *)
(***************************************************************************)
NextTimed ==
    \/ \E n \in NodeIDs : RegisterNode(Domain1, n, n)
    \/ \E n \in NodeIDs, s \in ProtoStatuses \ {"NODE_STATUS_UNKNOWN"} :
          HealthCheck(n, Domain1, Address1, FALSE, s, NilTags)
    \/ Sweep
    \/ TimelyTick

SpecTimed == InitLoaded /\ [][NextTimed]_vars

(***************************************************************************)
(* SpecLive: SpecTimed with a sweeper goroutine that is scheduled whenever  *)
(* its ticker has fired, and a clock that keeps running.  Clients are free  *)
(* to stop calling at any point.                                           *)
(***************************************************************************)
\* One node that heartbeats and one that is registered and stays silent.
HeartbeatNode == NodeIDPool[1]
SilentNode == NodeIDPool[2]
LiveNodes == {HeartbeatNode, SilentNode}

NextLive ==
    \/ \E n \in LiveNodes : RegisterNode(Domain1, n, n)
    \/ \E s \in {"NODE_STATUS_ONLINE", "NODE_STATUS_ERROR"} :
          HealthCheck(HeartbeatNode, Domain1, Address1, FALSE, s, NilTags)
    \/ Sweep
    \/ TimelyTick

SpecLive == InitLoaded /\ [][NextLive]_vars /\ WF_vars(Sweep) /\ WF_vars(TimelyTick)

(***************************************************************************)
(* SpecHeartbeat: one domain whose nodes arrive by heartbeat or by         *)
(* registration, as head or not, with any status and tags.                 *)
(***************************************************************************)
NextHeartbeat ==
    \/ \E n \in NodeIDs : RegisterNode(Domain1, n, n)
    \/ \E n \in NodeIDs, h \in BOOLEAN, s \in ProtoStatuses \ {"NODE_STATUS_UNKNOWN"},
          t \in ProtoTags :
          HealthCheck(n, Domain1, Address1, h, s, t)
    \/ Sweep
    \/ Tick(LateStep)

SpecHeartbeat == InitLoaded /\ [][NextHeartbeat]_vars

(***************************************************************************)
(* SpecRpc: handlers as interleaved steps of concurrent client tasks.      *)
(***************************************************************************)
NextRpc ==
    \/ \E d \in DomainIDs : DeleteDomain(d)
    \/ \E c \in Clients, d \in ReqDomainIDs, n \in NodeIDs : RegisterNode_GetDomain(c, d, n, n)
    \/ \E c \in Clients : RegisterNode_AddNode(c, calls[c].node)
    \/ \E c \in Clients, n \in NodeIDs : HealthCheck_GetNode(c, n, Domain1)
    \/ \E c \in Clients : HealthCheck_GetDomain(c)
    \/ \E c \in Clients : HealthCheck_AddNode(c, Address1, FALSE, "NODE_STATUS_ONLINE", NilTags)
    \/ \E c \in Clients : HealthCheck_UpdateNode(c, Address1, FALSE, "NODE_STATUS_ONLINE", NilTags)
    \/ \E c \in Clients : HealthCheck_UpdateNodeStatus(c)
    \/ \E c \in Clients : Return(c)
    \/ Sweep
    \/ Tick(LateStep)

SpecRpc == InitLoadedAll /\ [][NextRpc]_vars

(***************************************************************************)
(* Properties                                                              *)
(***************************************************************************)
Members(d) == Range(domains[d].NodeIDs)

Occurrences(ids, n) == Cardinality({i \in 1..Len(ids) : ids[i] = n})

HeadsOf(d) == {n \in Members(d) : n \in DOMAIN nodes /\ nodes[n].IsHead}

\* C1 (membership closure): every node of the nodes map names a domain of the
\* domains map, and that domain's NodeIDs lists the node exactly once.
MembershipClosure ==
    \A n \in DOMAIN nodes :
        /\ nodes[n].DomainID \in DOMAIN domains
        /\ Occurrences(domains[nodes[n].DomainID].NodeIDs, n) = 1

\* Two domains hold one node each, and time has passed since the nodes joined.
MembershipWitness ==
    /\ Cardinality(DOMAIN domains) = 2
    /\ \A d \in DOMAIN domains : Len(domains[d].NodeIDs) = 1
    /\ Cardinality(DOMAIN nodes) = 2
    /\ \A n \in DOMAIN nodes : nodes[n].CreatedAt < now

\* C2 (head uniqueness): in every domain at most one member node has IsHead, and
\* a HeadNodeID that is set names that node.
HeadUniqueness ==
    \A d \in DOMAIN domains :
        /\ Cardinality(HeadsOf(d)) <= 1
        /\ domains[d].HeadNodeID # NoNode => HeadsOf(d) \subseteq {domains[d].HeadNodeID}

\* C3 (a head node is its domain's head): every node with IsHead is the
\* HeadNodeID of its domain.
HeadIsDomainHead ==
    \A n \in DOMAIN nodes :
        nodes[n].IsHead =>
            /\ nodes[n].DomainID \in DOMAIN domains
            /\ domains[nodes[n].DomainID].HeadNodeID = n

\* C5 (NodeIDs and head): a domain's NodeIDs has no duplicate, and a HeadNodeID
\* that is set is one of the NodeIDs.
NodeIDsUniqueHeadListed ==
    \A d \in DOMAIN domains :
        /\ \A n \in Members(d) : Occurrences(domains[d].NodeIDs, n) = 1
        /\ domains[d].HeadNodeID # NoNode => domains[d].HeadNodeID \in Members(d)

\* A domain that lost its head: it has a member left, no head, and its tags were
\* refreshed after that member was last touched.
HeadRemovedWitness ==
    \E d \in DOMAIN domains :
        /\ Len(domains[d].NodeIDs) = 1
        /\ domains[d].HeadNodeID = NoNode
        /\ \A n \in Members(d) : n \in DOMAIN nodes /\ nodes[n].UpdatedAt < domains[d].UpdatedAt

\* C9 (delete cascades): a step that removes a domain leaves GetDomain failing
\* for it, GetNode failing for every node it listed, and no node naming it.
DeleteCascades ==
    [][\A d \in DOMAIN domains :
          d \notin DOMAIN domains' =>
              /\ GetDomainErr(domains', d) = ErrDomainNotFound
              /\ \A n \in Members(d) : GetNodeErr(nodes', n) = ErrNodeNotFound
              /\ \A n \in DOMAIN nodes' : nodes'[n].DomainID # d]_vars

\* One domain was deleted; the other still holds a node that joined before now.
DeleteWitness ==
    /\ genCount = 2
    /\ Cardinality(DOMAIN domains) = 1
    /\ Cardinality(DOMAIN nodes) = 1
    /\ \A n \in DOMAIN nodes : nodes[n].CreatedAt < now

TagNames == {"CPU", "GPU", "Memory", "Camera"}

\* The field-wise OR of the tags of the nodes a domain lists.
OrOfMembers(d) ==
    [f \in TagNames \cup {"isNil"} |->
        IF f = "isNil"
        THEN FALSE
        ELSE \E n \in Members(d) :
                 /\ n \in DOMAIN nodes
                 /\ ~nodes[n].ResourceTags.isNil
                 /\ nodes[n].ResourceTags[f]]

\* C4 (tag aggregation): a domain's ResourceTags is the field-wise OR of the
\* tags of the nodes in its NodeIDs; nodes without tags add nothing, and a
\* domain without members has every tag false.
TagAggregation ==
    \A d \in DOMAIN domains :
        \A f \in TagNames \cup {"isNil"} : domains[d].ResourceTags[f] = OrOfMembers(d)[f]

\* A domain of two nodes, one without tags and one whose tags were reported by
\* a heartbeat, after a sweep marked a node offline.
TagAggregationWitness ==
    \E d \in DOMAIN domains :
        /\ Len(domains[d].NodeIDs) = 2
        /\ \E n \in Members(d) : nodes[n].ResourceTags.isNil
        /\ \E n \in Members(d) : nodes[n].ResourceTags.GPU
        /\ \E n \in Members(d) : nodes[n].Status = NodeStatusOffline /\ nodes[n].UpdatedAt > nodes[n].LastSeen
        /\ domains[d].ResourceTags.GPU /\ domains[d].ResourceTags.Camera /\ ~domains[d].ResourceTags.CPU

\* C6 (timeout bound): with a sweep every SweepInterval, no node is online with
\* a last-seen age above TimeoutDuration + SweepInterval.
TimeoutBound ==
    \A n \in DOMAIN nodes :
        nodes[n].Status = NodeStatusOnline =>
            now - nodes[n].LastSeen <= TimeoutDuration + SweepInterval

\* A node that a sweep marked offline, at the first sweep after its age passed
\* TimeoutDuration.
TimeoutWitness ==
    \E n \in DOMAIN nodes :
        /\ nodes[n].Status = NodeStatusOffline
        /\ nodes[n].UpdatedAt - nodes[n].LastSeen > TimeoutDuration
        /\ nodes[n].UpdatedAt - nodes[n].LastSeen <= TimeoutDuration + SweepInterval

\* C7 (reaping bound): with a sweep every SweepInterval, no offline or error
\* node is in the nodes map with a last-seen age above CleanupDuration +
\* SweepInterval.
ReapingBound ==
    \A n \in DOMAIN nodes :
        nodes[n].Status \in {NodeStatusOffline, NodeStatusError} =>
            now - nodes[n].LastSeen <= CleanupDuration + SweepInterval

\* A node that was online at its last heartbeat, was marked offline by a sweep
\* and has reached the age at which the pending sweep removes it.
ReapingWitness ==
    \E n \in DOMAIN nodes :
        /\ nodes[n].Status = NodeStatusOffline
        /\ nodes[n].UpdatedAt > nodes[n].LastSeen
        /\ now - nodes[n].LastSeen > CleanupDuration

\* The last-seen times from which a removal falls inside the modelled time.
ReclaimableTimes == {t \in 0..MaxTime : t + CleanupDuration + SweepInterval <= MaxTime}

Listed(n) == \E d \in DOMAIN domains : n \in Members(d)

\* C8 (liveness of reclamation): a node in the store whose last heartbeat was
\* at time t is later either seen again or removed from the nodes map and from
\* every domain's NodeIDs, whatever its status.
EventuallyReclaimed ==
    \A n \in LiveNodes, t \in ReclaimableTimes :
        (n \in DOMAIN nodes /\ nodes[n].LastSeen = t)
            ~> \/ n \notin DOMAIN nodes /\ ~Listed(n)
               \/ n \in DOMAIN nodes /\ nodes[n].LastSeen > t

\* The sweeper has emptied the domain: the only steps of SpecLive that leave
\* the domain without nodes are removals by the sweeper.
ReclaimedWitness ==
    /\ nodes = <<>>
    /\ domains[Domain1].NodeIDs = <<>>
    /\ domains[Domain1].UpdatedAt > CleanupDuration

\* The step in which client c's RegisterNode call, with every field set, ends
\* while the node it names is in the store.
DuplicateReturns(c) ==
    /\ calls[c].pc # "return"
    /\ calls'[c].pc = "return"
    /\ calls'[c].op = "RegisterNode"
    /\ calls'[c].node # ""
    /\ calls'[c].domain # ""
    /\ calls'[c].node \in DOMAIN nodes

Rejected(c) ==
    /\ calls'[c].err = ErrNodeAlreadyExists
    /\ nodes' = nodes
    /\ domains' = domains

\* C10 as stated (duplicate registration): a RegisterNode call for a NodeID in
\* the store fails with NodeAlreadyExists and leaves nodes and domains as they
\* were, whichever domain the request names.
DuplicateRegistrationAnyDomain ==
    [][\A c \in Clients : DuplicateReturns(c) => Rejected(c)]_vars

\* C10 (duplicate registration), for a request whose domain was found: the
\* AddNode of a RegisterNode call for a NodeID in the store fails with
\* NodeAlreadyExists and leaves nodes and domains as they were.
DuplicateRegistration ==
    [][\A c \in Clients :
          DuplicateReturns(c) /\ calls[c].pc = "AddNode" => Rejected(c)]_vars

\* A RegisterNode call was rejected for a node that is in another domain than
\* the one the request names and was stored before the call began.
DuplicateWitness ==
    \E c \in Clients :
        /\ calls[c].op = "RegisterNode"
        /\ calls[c].pc = "return"
        /\ calls[c].err = ErrNodeAlreadyExists
        /\ calls[c].node \in DOMAIN nodes
        /\ nodes[calls[c].node].DomainID # calls[c].domain
        /\ nodes[calls[c].node].Status = NodeStatusOnline
        /\ nodes[calls[c].node].CreatedAt < now

\* The status and the tags a heartbeat reports, as registry values.
ReportedStatus(status) ==
    CASE status = "NODE_STATUS_ONLINE" -> "online"
      [] status = "NODE_STATUS_OFFLINE" -> "offline"
      [] status = "NODE_STATUS_ERROR" -> "error"

ReportedTag(tags, f) == ~tags.isNil /\ tags[f]

\* What C11 says of the step that handles a first heartbeat of node n.
AutoRegistered(n, d, address, isHead, status, tags) ==
    /\ DOMAIN nodes' = DOMAIN nodes \cup {n}
    /\ \A m \in DOMAIN nodes : nodes'[m] = nodes[m]
    /\ nodes'[n].DomainID = d
    /\ Occurrences(domains'[d].NodeIDs, n) = 1
    /\ \A e \in DOMAIN domains' \ {d} : n \notin Members(e)
    /\ nodes'[n].Address = address
    /\ nodes'[n].Status = ReportedStatus(status)
    /\ nodes'[n].IsHead = isHead
    /\ \A f \in TagNames : nodes'[n].ResourceTags[f] = ReportedTag(tags, f)
    /\ nodes'[n].Name = n
    /\ nodes'[n].LastSeen = now
    /\ isHead => domains'[d].HeadNodeID = n
    /\ Len(domains'[d].NodeIDs) = 1 =>
           \A f \in TagNames : domains'[d].ResourceTags[f] = ReportedTag(tags, f)

SweepStep == nextSweep' # nextSweep

\* C12 (timeout, then eviction of a sole node): the sweep that marks the only
\* node of a domain offline leaves the domain's tags, NodeIDs and HeadNodeID as
\* they were; the sweep that evicts it leaves the domain with no members, no
\* HeadNodeID and every tag false.
SoleNodeSweep ==
    [][\A d \in DOMAIN domains, n \in DOMAIN nodes :
          (SweepStep /\ domains[d].NodeIDs = <<n>>) =>
              /\ (n \in DOMAIN nodes' /\ nodes[n].Status = NodeStatusOnline
                                      /\ nodes'[n].Status = NodeStatusOffline) =>
                     /\ domains'[d].ResourceTags = domains[d].ResourceTags
                     /\ domains'[d].NodeIDs = domains[d].NodeIDs
                     /\ domains'[d].HeadNodeID = domains[d].HeadNodeID
              /\ n \notin DOMAIN nodes' =>
                     /\ domains'[d].NodeIDs = <<>>
                     /\ domains'[d].HeadNodeID = NoNode
                     /\ \A f \in TagNames : ~domains'[d].ResourceTags[f]]_vars

\* The only node of a domain, a head node with tags {cpu}, was marked offline
\* by a sweep, the domain still has its tags, and the node is due for eviction.
SoleNodeWitness ==
    \E n \in DOMAIN nodes :
        /\ domains[nodes[n].DomainID].NodeIDs = <<n>>
        /\ domains[nodes[n].DomainID].HeadNodeID = n
        /\ nodes[n].IsHead
        /\ nodes[n].ResourceTags.CPU
        /\ domains[nodes[n].DomainID].ResourceTags.CPU
        /\ nodes[n].Status = NodeStatusOffline
        /\ nodes[n].UpdatedAt > nodes[n].LastSeen
        /\ now - nodes[n].LastSeen > CleanupDuration
        /\ now >= nextSweep


(***************************************************************************)
(* Domain service over the table: creation in steps, updates, deletions,   *)
(* registrations and restarts.                                             *)
(***************************************************************************)
UpdateNames == {"", "staging"}

UpdateDescriptions == {"", "core"}

NextRepo ==
    \/ \E c \in Clients, name \in DomainNames, description \in Descriptions, dbFails \in BOOLEAN :
          CreateDomain_Persist(c, name, description, dbFails)
    \/ \E c \in Clients : CreateDomain_AddDomain(c)
    \/ \E c \in Clients : Return(c)
    \/ \E d \in DomainIDs, name \in UpdateNames, description \in UpdateDescriptions :
          UpdateDomain(d, name, description)
    \/ \E d \in DomainIDs : DeleteDomain(d)
    \/ \E d \in DomainIDs, n \in NodeIDs : RegisterNode(d, n, n)
    \/ Restart
    \/ Tick(LateStep)

SpecRepo == Init /\ [][NextRepo]_vars

PersistBeforeInsert ==
    [][\A c \in Clients :
          /\ (calls[c].pc = "idle" /\ calls'[c].op = "CreateDomain"
                 /\ calls'[c].err = ErrInvalidResourceTags)
                => (repo' = repo /\ domains' = domains /\ nodes' = nodes
                       /\ calls'[c].pc = "return")
          /\ (calls[c].pc = "idle" /\ calls'[c].op = "CreateDomain"
                 /\ calls'[c].err = ErrPersist)
                => (repo' = repo /\ domains' = domains /\ nodes' = nodes
                       /\ calls'[c].pc = "return")
          /\ (calls[c].pc = "idle" /\ calls'[c].op = "CreateDomain"
                 /\ calls'[c].pc = "AddDomain")
                => (calls'[c].domain \in DOMAIN repo' /\ domains' = domains)
          /\ \A d \in DOMAIN domains' \ DOMAIN domains : d \in DOMAIN repo]_vars

\* A call has written its row and not yet inserted the domain, and another
\* call has failed.
PersistWitness ==
    \E c1, c2 \in Clients :
        /\ calls[c1].pc = "AddDomain"
        /\ calls[c1].domain \in DOMAIN repo
        /\ calls[c1].domain \notin DOMAIN domains
        /\ calls[c2].pc = "return"
        /\ calls[c2].err = ErrPersist

(***************************************************************************)
(* Scheduler beside the heartbeats and the sweeper                         *)
(***************************************************************************)
EnoughCapacity == ResourceCapacity(ResourceVector(400, 16, 2), ResourceVector(200, 8, 1))

ScarceCapacity == ResourceCapacity(ResourceVector(400, 16, 2), ResourceVector(50, 8, 1))

CpuTags == NewResourceTags(TRUE, FALSE, FALSE, FALSE)

SchedRequests ==
    {NilRequest,
     DeployComponentRequest(NilInfo),
     DeployComponentRequest(Info(100, 4, 1, <<>>))}

DownstreamOutcomes ==
    {NoResponse,
     [isNil |-> FALSE, Success |-> TRUE, Error |-> ""],
     [isNil |-> FALSE, Success |-> FALSE, Error |-> "rejected"]}

SchedSteps(requests) ==
    \/ \E req \in requests, order \in Orders(DOMAIN domains) : Sched_Begin(req, order)
    \/ Sched_GetNodesByDomain
    \/ Sched_CheckNode
    \/ Sched_Clone
    \/ \E i \in 1..MaxDomains, j \in 1..Len(NodeIDPool) : Sched_Draw(i, j)
    \/ \E dialFails \in BOOLEAN, outcome \in DownstreamOutcomes : Sched_Forward(dialFails, outcome)
    \/ Sched_Return

NextSched ==
    \/ \E n \in NodeIDs, s \in {"NODE_STATUS_ONLINE", "NODE_STATUS_ERROR"} :
          HealthCheckCapacity(n, Domain1, Address1, n = NodeIDPool[1], s, CpuTags, EnoughCapacity)
    \/ Sweep
    \/ Tick(LateStep)
    \/ SchedSteps(SchedRequests)

SpecSched == InitLoaded /\ [][NextSched]_vars

(***************************************************************************)
(* Scheduler over a store at rest: heartbeats arrive between the calls of  *)
(* DeployComponent, not during them.                                       *)
(***************************************************************************)
QuietRequests ==
    {DeployComponentRequest(Info(100, 4, 1, <<>>)),
     DeployComponentRequest(Info(100, 4, 0, <<"CPU">>)),
     DeployComponentRequest(Info(0, 0, 0, <<"Gpu">>)),
     DeployComponentRequest(Info(0, 0, 0, <<"disk">>))}

QuietCapacities ==
    {NilCapacity,
     ResourceCapacity(ResourceVector(400, 16, 2), NilVector),
     ScarceCapacity,
     EnoughCapacity}

\* The first two nodes report to the first domain, the others to the second.
QuietDomainOf(i) == IF i <= 2 THEN DomainIDPool[1] ELSE DomainIDPool[2]

QuietHeartbeat(i, address, status, capacity) ==
    /\ sched.pc = "idle"
    /\ HealthCheckCapacity(NodeIDPool[i], QuietDomainOf(i), address, FALSE, status, CpuTags,
                           capacity)

NextQuiet ==
    \/ \E i \in 1..MaxQuietNodes, address \in Addresses,
          s \in {"NODE_STATUS_ONLINE", "NODE_STATUS_ERROR"}, capacity \in QuietCapacities :
          QuietHeartbeat(i, address, s, capacity)
    \/ SchedSteps(QuietRequests)

SpecQuiet == InitLoadedAll /\ [][NextQuiet]_vars

\* The conditions of an eligible node, read off a node value.
EnoughFor(capacity, resourceReq) ==
    /\ ~capacity.isNil
    /\ ~capacity.Available.isNil
    /\ capacity.Available.CPU >= resourceReq.Cpu
    /\ capacity.Available.Memory >= resourceReq.Memory
    /\ capacity.Available.GPU >= resourceReq.Gpu

HoldsTag(nodeTags, tag) ==
    \/ tag \in {"cpu", "CPU"} /\ nodeTags.CPU
    \/ tag \in {"gpu", "Gpu"} /\ nodeTags.GPU
    \/ tag \in {"memory", "MEMORY"} /\ nodeTags.Memory
    \/ tag \in {"camera", "Camera"} /\ nodeTags.Camera

Eligible(node, resourceReq) ==
    /\ node.Status = NodeStatusOnline
    /\ node.Address # ""
    /\ \A i \in 1..Len(resourceReq.Tags) :
          ~node.ResourceTags.isNil /\ HoldsTag(node.ResourceTags, resourceReq.Tags[i])
    /\ EnoughFor(CapacityOf(node), resourceReq)

\* C13: every node value DeployComponent has dialed is online, has an address,
\* holds the required tags and has the requested capacity available, whatever
\* heartbeats and sweeps ran beside the call.
DialedNodeEligible ==
    \A k \in 1..Len(dials) : Eligible(dials[k].node, sched.req.ResourceRequest)

\* C14: every node DeployComponent has dialed has IsHead set.
DialedNodeIsHead ==
    \A k \in 1..Len(dials) : dials[k].node.IsHead

\* C16: DeployComponent returns no RPC error; its response is a failure with a
\* message, or else the response of a downstream node that was called.
NeverRpcError ==
    sched.pc = "return" =>
        /\ sched.rpcErr = ErrNone
        /\ ~sched.resp.isNil
        /\ sched.req.isNil => sched.resp = [isNil |-> FALSE, Success |-> FALSE,
                                           Error |-> MsgRequestRequired]
        /\ (~sched.req.isNil /\ Len(dials) = 0) =>
               (sched.resp.Success = FALSE /\ sched.resp.Error # "")
        /\ (Len(dials) > 0 /\ dials[1].reply.isNil) =>
               (sched.resp.Success = FALSE /\ sched.resp.Error # "")
        /\ sched.resp.Success => (Len(dials) = 1 /\ dials[1].reply = sched.resp)

\* A call is returning after its downstream call failed.
RpcErrorWitness ==
    /\ sched.pc = "return"
    /\ Len(dials) = 1
    /\ ~dials[1].request.isNil
    /\ dials[1].reply.isNil
    /\ sched.resp.Success = FALSE

\* C17: when the downstream call gave a response, the downstream node received
\* the request of the caller, the caller gets that response, and one node was
\* called.
ForwardedVerbatim ==
    /\ Len(dials) <= 1
    /\ (sched.pc = "return" /\ Len(dials) > 0 /\ ~dials[1].reply.isNil) =>
          /\ dials[1].request = sched.req
          /\ sched.resp = dials[1].reply
          /\ Len(dials) = 1

\* A call is returning the success response of the downstream node.
ForwardedWitness ==
    /\ sched.pc = "return"
    /\ Len(dials) = 1
    /\ ~dials[1].reply.isNil
    /\ dials[1].reply.Success
    /\ sched.resp.Success

\* The nodes of the store that are eligible for the request of the call.
EligibleNodes ==
    {n \in DOMAIN nodes : Eligible(nodes[n], sched.req.ResourceRequest)}

EligibleIn(d) == {n \in EligibleNodes : nodes[n].DomainID = d}

\* C15: with the store at rest and no eligible node in it, DeployComponent
\* returns success=false with the no-capacity message and no RPC error, and
\* opens no connection.
NoCapacityResponse ==
    (sched.pc # "idle" /\ ~sched.req.isNil) =>
        ((~sched.req.ResourceRequest.isNil /\ EligibleNodes = {}) =>
            /\ dials = <<>>
            /\ sched.pc # "forward"
            /\ sched.pc = "return" =>
                  /\ sched.resp = [isNil |-> FALSE, Success |-> FALSE, Error |-> MsgNoCapacity]
                  /\ sched.rpcErr = ErrNone)

\* The call returns while the only online node has 50 millicores available and
\* the request asks for 100.
NoCapacityWitness ==
    /\ sched.pc = "return"
    /\ sched.req.ResourceRequest.Cpu = 100
    /\ \E n \in DOMAIN nodes :
          /\ nodes[n].Status = NodeStatusOnline
          /\ nodes[n].Address # ""
          /\ CapacityOf(nodes[n]) = ScarceCapacity
          /\ \A m \in DOMAIN nodes \ {n} : nodes[m].Status # NodeStatusOnline
    /\ sched.resp.Error = MsgNoCapacity
    /\ dials = <<>>

\* C18: with the store at rest, when the loop of selectRandomNode is over each
\* domain with an eligible node holds one of the N places the first draw picks
\* from, each eligible node of a candidate holds one of the places the second
\* draw picks from, and nothing else holds a place; a node that has been drawn
\* is an eligible node.
TwoLevelDraw ==
    /\ (sched.pc = "domains" /\ Len(sched.todo) = 0) =>
          LET c == sched.candidates
              N == Cardinality({d \in DOMAIN domains : EligibleIn(d) # {}})
          IN /\ Len(c) = N
             /\ \A d \in DOMAIN domains :
                   EligibleIn(d) # {} => Cardinality({i \in 1..Len(c) : c[i].domainID = d}) = 1
             /\ \A i \in 1..Len(c) :
                   /\ Len(c[i].nodes) = Cardinality(EligibleIn(c[i].domainID))
                   /\ \A n \in EligibleIn(c[i].domainID) :
                         Cardinality({j \in 1..Len(c[i].nodes) : c[i].nodes[j].ID = n}) = 1
    /\ sched.pc = "forward" => sched.target.ID \in EligibleNodes

\* The loop is over with two candidate domains, one of two eligible nodes and
\* one of one.
TwoLevelWitness ==
    /\ sched.pc = "domains"
    /\ Len(sched.todo) = 0
    /\ Len(sched.candidates) = 2
    /\ \E i, k \in 1..2 : Len(sched.candidates[i].nodes) = 2 /\ Len(sched.candidates[k].nodes) = 1
    /\ Cardinality(EligibleNodes) = 3

\* C23: an AddNode of a head node into a domain whose HeadNodeID names another
\* node fails and leaves the nodes map and the domain as they were.  AddNode is
\* reached here through the first heartbeat of a node that asserts is_head.
HeadConflictRolledBack ==
    [][\A n \in NodeIDs, d \in DomainIDs, s \in ProtoStatuses :
          (/\ n \notin DOMAIN nodes
           /\ d \in DOMAIN domains
           /\ domains[d].HeadNodeID \notin {NoNode, n}
           /\ HealthCheck(n, d, Address1, TRUE, s, NilTags))
          => (/\ AddNodeErr(Store, AutoRegisteredNode(d, n, Address1, TRUE, s, NilTags, now))
                    = ErrNodeNotInDomain
              /\ nodes' = nodes
              /\ domains' = domains)]_vars

(***************************************************************************)
(* SpecFrame: one node, registered under a name or by its first heartbeat, *)
(* and heartbeats with every kind of request field.                        *)
(***************************************************************************)
Address2 == "10.0.0.2:50051"

FrameNode == NodeIDPool[1]

FrameAddresses == {"", Address2}

FrameStatuses == {"NODE_STATUS_UNKNOWN", "NODE_STATUS_ONLINE", "NODE_STATUS_ERROR"}

FrameTags == {NilTags, NewResourceTags(FALSE, TRUE, FALSE, TRUE)}

NextFrame ==
    \/ \E d \in DomainIDs : RegisterNode(d, FrameNode, "worker")
    \/ \E d \in DomainIDs, address \in FrameAddresses, h \in BOOLEAN,
          s \in FrameStatuses, t \in FrameTags :
          HealthCheck(FrameNode, d, address, h, s, t)
    \/ RemoveNode(FrameNode)
    \/ Tick(LateStep)

SpecFrame == InitLoadedAll /\ [][NextFrame]_vars

\* C24: a HealthCheck for a node that is in the store sets Status to the
\* reported status (offline for an unknown one) and LastSeen to the time of the call, replaces Address only
\* by a non-empty address and ResourceTags only by supplied tags, sets IsHead
\* when asserted and never clears it, and leaves Name, DomainID and CreatedAt.
HeartbeatFrame ==
    [][\A n \in DOMAIN nodes, d \in DomainIDs, address \in FrameAddresses, h \in BOOLEAN,
         s \in FrameStatuses, t \in FrameTags :
          HealthCheck(n, d, address, h, s, t) =>
              /\ n \in DOMAIN nodes'
              /\ nodes'[n].Status = (IF s = "NODE_STATUS_UNKNOWN" THEN "offline"
                                     ELSE ReportedStatus(s))
              /\ nodes'[n].LastSeen = now
              /\ nodes'[n].Address = (IF address = "" THEN nodes[n].Address ELSE address)
              /\ nodes'[n].ResourceTags =
                    (IF t.isNil THEN nodes[n].ResourceTags
                     ELSE [isNil |-> FALSE, CPU |-> t.CPU, GPU |-> t.GPU,
                           Memory |-> t.Memory, Camera |-> t.Camera])
              /\ nodes'[n].IsHead = (nodes[n].IsHead \/ h)
              /\ nodes'[n].Name = nodes[n].Name
              /\ nodes'[n].DomainID = nodes[n].DomainID
              /\ nodes'[n].CreatedAt = nodes[n].CreatedAt]_vars

\* A node registered under a name has since been made head, given an address
\* and tags and reported in error by heartbeats.
HeartbeatFrameWitness ==
    \E n \in DOMAIN nodes :
        /\ nodes[n].Name = "worker"
        /\ nodes[n].IsHead
        /\ nodes[n].Address = Address2
        /\ nodes[n].ResourceTags.GPU
        /\ nodes[n].Status = NodeStatusError
        /\ nodes[n].LastSeen > nodes[n].CreatedAt

(***************************************************************************)
(* SpecVocab: the scheduler over a store at rest whose nodes carry tags,   *)
(* empty tags or no tags, and requests with and without required tags.     *)
(***************************************************************************)
VocabRequests ==
    {DeployComponentRequest(Info(100, 4, 1, <<>>)),
     DeployComponentRequest(Info(100, 4, 1, <<"CPU">>)),
     DeployComponentRequest(Info(100, 4, 1, <<"cpu", "disk">>)),
     DeployComponentRequest(Info(100, 4, 1, <<"gpu">>))}

VocabAddNode(n) ==
    /\ sched.pc = "idle"
    /\ AddNode(n, Domain1, FALSE, NodeStatusOnline)

VocabHeartbeat(n, status, tags) ==
    /\ sched.pc = "idle"
    /\ HealthCheckCapacity(n, Domain1, Address1, FALSE, status, tags, EnoughCapacity)

NextVocab ==
    \/ \E n \in NodeIDs : VocabAddNode(n)
    \/ \E n \in NodeIDs, s \in {"NODE_STATUS_ONLINE", "NODE_STATUS_ERROR"},
          t \in {NilTags, CpuTags} : VocabHeartbeat(n, s, t)
    \/ SchedSteps(VocabRequests)

SpecVocab == InitLoaded /\ [][NextVocab]_vars

\* The tags of the vocabulary as the scheduler reads them, and as written in
\* lower case only.
TagSpellings == {"cpu", "CPU", "gpu", "Gpu", "memory", "MEMORY", "camera", "Camera"}

TagVocabulary == {"cpu", "gpu", "memory", "camera"}

\* The node the check step of the scheduler is looking at.
CheckedNode == Deref(nodes, Head(sched.fetched))

KeptByCheck == sched.pc = "nodes" /\ sched'.pc = "clone"

DroppedByCheck == sched.pc = "nodes" /\ sched'.pc # "clone" /\ sched' # sched

\* What C28 says of a call, for a given set of known tags: a request with a
\* tag outside it gets the no-capacity failure without a dial; a node without
\* ResourceTags is dropped by a request that requires tags; a request without
\* tags keeps every online node with an address and enough capacity.
TagRule(known) ==
    LET tags == sched.req.ResourceRequest.Tags IN
    /\ (sched.pc = "nodes" /\ sched' # sched /\ \E i \in 1..Len(tags) : tags[i] \notin known)
          => DroppedByCheck
    /\ (sched'.pc \in {"forward", "return"} /\ \E i \in 1..Len(tags) : tags[i] \notin known)
          => (/\ dials' = <<>>
              /\ sched'.pc = "return"
              /\ sched'.resp = [isNil |-> FALSE, Success |-> FALSE, Error |-> MsgNoCapacity])
    /\ (sched.pc = "nodes" /\ sched' # sched /\ Len(tags) > 0 /\ CheckedNode.ResourceTags.isNil)
          => DroppedByCheck
    /\ (sched.pc = "nodes" /\ sched' # sched /\ Len(tags) = 0)
          => (KeptByCheck <=> (/\ CheckedNode.Status = NodeStatusOnline
                               /\ CheckedNode.Address # ""
                               /\ EnoughFor(CapacityOf(CheckedNode), sched.req.ResourceRequest)))

\* C28 (amended): the vocabulary is read without regard to case.
TagVocabularyAnyCase == [][TagRule(TagSpellings)]_vars

\* C28 (as stated): the vocabulary is the four lower-case tags.
TagVocabularyExact == [][TagRule(TagVocabulary)]_vars

\* A call with an unknown tag among its required tags returns the no-capacity
\* failure while the store holds an online node that has the known tag and
\* capacity, and a node without ResourceTags.
TagVocabularyWitness ==
    /\ sched.pc = "return"
    /\ sched.req.ResourceRequest.Tags = <<"cpu", "disk">>
    /\ sched.resp.Error = MsgNoCapacity
    /\ dials = <<>>
    /\ \E n, m \in DOMAIN nodes :
          /\ nodes[n].Status = NodeStatusOnline
          /\ nodes[n].Address # ""
          /\ ~nodes[n].ResourceTags.isNil
          /\ nodes[n].ResourceTags.CPU
          /\ CapacityOf(nodes[n]) = EnoughCapacity
          /\ nodes[m].ResourceTags.isNil

\* C29: a sweep changes the status of a node only from online to offline,
\* leaves LastSeen, and evicts a node only if it was offline or in error before
\* the sweep and was last seen more than CleanupDuration ago; a node that is
\* online after a step of which it was not online before was not put there by
\* a sweep.
SweepTransitions ==
    [][/\ SweepStep =>
             \A n \in DOMAIN nodes :
                 IF n \in DOMAIN nodes'
                 THEN /\ nodes'[n].LastSeen = nodes[n].LastSeen
                      /\ nodes'[n].Status # nodes[n].Status =>
                            (/\ nodes[n].Status = NodeStatusOnline
                             /\ nodes'[n].Status = NodeStatusOffline
                             /\ now - nodes[n].LastSeen > TimeoutDuration)
                 ELSE /\ nodes[n].Status \in {NodeStatusOffline, NodeStatusError}
                      /\ now - nodes[n].LastSeen > CleanupDuration
       /\ \A n \in DOMAIN nodes' :
             (/\ nodes'[n].Status = NodeStatusOnline
              /\ (n \in DOMAIN nodes => nodes[n].Status # NodeStatusOnline))
             => (~SweepStep /\ nodes'[n].LastSeen = now)]_vars

\* A sweep that ran more than CleanupDuration after an online node was last
\* seen has marked it offline and kept it.
SweepTransitionsWitness ==
    \E n \in DOMAIN nodes :
        /\ nodes[n].Status = NodeStatusOffline
        /\ now - nodes[n].LastSeen > CleanupDuration
        /\ nodes[n].UpdatedAt = now
        /\ nodes[n].UpdatedAt > nodes[n].LastSeen

(***************************************************************************)
(* SpecReconnect: nodes that register, fall silent and report again once   *)
(* the sweeper has marked or evicted them, beside a sweeper that runs at   *)
(* every tick of its ticker.                                               *)
(***************************************************************************)
\* The sweeper set the node offline: only a sweep moves UpdatedAt past LastSeen.
MarkedOffline(n) ==
    /\ nodes[n].Status = NodeStatusOffline
    /\ nodes[n].UpdatedAt > nodes[n].LastSeen

ReconnectStatuses == ProtoStatuses \ {"NODE_STATUS_UNKNOWN"}

\* A node reports when it has just been registered, when the sweeper has
\* marked it offline or when it is not in the store.
ReconnectHeartbeat(n, isHead, status) ==
    /\ n \in DOMAIN nodes => (MarkedOffline(n) \/ nodes[n].CreatedAt = now)
    /\ HealthCheck(n, Domain1, Address1, isHead, status, NilTags)

NextReconnect ==
    \/ RegisterNode(Domain1, FrameNode, "worker")
    \/ \E h \in BOOLEAN, s \in ReconnectStatuses : ReconnectHeartbeat(FrameNode, h, s)
    \/ Sweep
    \/ TimelyTick

SpecReconnect == InitLoaded /\ [][NextReconnect]_vars

\* The heartbeat of a node the sweeper has marked offline, and of a node that
\* is not in the store; keepsHead is what the step does to IsHead.
ReconnectRule(n, h, s, keepsHead) ==
    IF n \in DOMAIN nodes
    THEN MarkedOffline(n) =>
            /\ n \in DOMAIN nodes'
            /\ nodes'[n].CreatedAt = nodes[n].CreatedAt
            /\ nodes'[n].Name = nodes[n].Name
            /\ nodes'[n].DomainID = nodes[n].DomainID
            /\ nodes'[n].IsHead = IF keepsHead THEN nodes[n].IsHead ELSE (nodes[n].IsHead \/ h)
            /\ \A d \in DOMAIN domains : domains'[d].NodeIDs = domains[d].NodeIDs
            /\ nodes'[n].Status = ReportedStatus(s)
            /\ nodes'[n].LastSeen = now
    ELSE /\ n \in DOMAIN nodes'
         /\ nodes'[n].CreatedAt = now
         /\ nodes'[n].LastSeen = now
         /\ nodes'[n].Name = n
         /\ nodes'[n].IsHead = h
         /\ nodes'[n].Status = ReportedStatus(s)
         /\ Occurrences(domains'[Domain1].NodeIDs, n) = 1

\* A sweep keeps every node that has reported since the sweep before it.
NextSweepKeeps ==
    SweepStep =>
        \A n \in DOMAIN nodes :
            (/\ nodes[n].LastSeen > nodes[n].CreatedAt
             /\ now - nodes[n].LastSeen <= SweepInterval)
            => n \in DOMAIN nodes'

ReturnedNodesAreSnapshots ==
    [][\A i \in 1..Len(sched.fetched), j \in 1..Len(sched'.fetched) :
          sched.fetched[i].id = sched'.fetched[j].id
          => Deref(nodes', sched'.fetched[j]) = Deref(nodes, sched.fetched[i])]_vars

(***************************************************************************)
(* SpecGuard: the reader/writer guard m.mu made explicit.  A call that is  *)
(* inside a Manager method holds a side of the guard from the step that    *)
(* takes it to the step in which the method body runs and the deferred     *)
(* unlock releases it; what a service does with the pointers a method      *)
(* returned runs with no side held.                                        *)
(***************************************************************************)
LockOf(call) == IF "lock" \in DOMAIN call THEN call.lock ELSE ""

\* m.mu.RLock() returns when no other goroutine holds the exclusive side.
RLockFree(c) == \A c2 \in Clients \ {c} : LockOf(calls[c2]) # "W"

\* m.mu.Lock() returns when no other goroutine holds either side.
LockFree(c) == \A c2 \in Clients \ {c} : LockOf(calls[c2]) = ""

InMethod(c, op, pc, lock, nodeID, domainID, arg) ==
    calls' = [calls EXCEPT ![c] =
                 [op |-> op, pc |-> pc, lock |-> lock, node |-> nodeID, domain |-> domainID,
                  arg |-> arg, err |-> ErrNone]]

\* Mutant: the shared side stays held after the method has returned.
RUnlockKeepsLock(call) == call

\* defer m.mu.RUnlock()
RUnlock(call) == [call EXCEPT !.lock = ""]

Leave(c) == calls' = [calls EXCEPT ![c] = Idle]

\* service.UpdateDomain: GetDomain under the shared side, then the assignments
\* to the domain it returned.
UpdateDomain_RLock(c, domainID, name) ==
    /\ calls[c].pc = "idle"
    /\ RLockFree(c)
    /\ InMethod(c, "UpdateDomain", "GetDomain", "R", "", domainID, name)
    /\ UNCHANGED <<domains, nodes, now, nextSweep, genCount, repo, created, sched, dials>>

UpdateDomain_GetDomain(c) ==
    /\ calls[c].op = "UpdateDomain"
    /\ calls[c].pc = "GetDomain"
    /\ calls' = IF GetDomainErr(domains, calls[c].domain) # ErrNone
                THEN [calls EXCEPT ![c] = Idle]
                ELSE [calls EXCEPT ![c] = [RUnlock(@) EXCEPT !.pc = "assign"]]
    /\ UNCHANGED <<domains, nodes, now, nextSweep, genCount, repo, created, sched, dials>>

UpdateDomain_Assign(c) ==
    /\ calls[c].op = "UpdateDomain"
    /\ calls[c].pc = "assign"
    /\ domains' = IF calls[c].domain \in DOMAIN domains
                  THEN [domains EXCEPT ![calls[c].domain] =
                           [@ EXCEPT !.Name = IF calls[c].arg # "" THEN calls[c].arg ELSE @,
                                     !.UpdatedAt = now]]
                  ELSE domains
    /\ Leave(c)
    /\ UNCHANGED <<nodes, now, nextSweep, genCount, repo, created, sched, dials>>

GuardOps == {"AddNode", "UpdateNodeStatus", "checkNodeTimeouts"}

\* Manager.AddNode, Manager.UpdateNodeStatus and checkNodeTimeouts: the
\* exclusive side is taken, then the body runs and the side is released.
Manager_Lock(c, op, nodeID, status) ==
    /\ calls[c].pc = "idle"
    /\ LockFree(c)
    /\ op = "checkNodeTimeouts" => now >= nextSweep
    /\ InMethod(c, op, "locked", "W", nodeID, Domain1, status)
    /\ UNCHANGED <<domains, nodes, now, nextSweep, genCount, repo, created, sched, dials>>

Manager_Run(c) ==
    /\ calls[c].op \in GuardOps
    /\ calls[c].pc = "locked"
    /\ LET n == calls[c].node IN
       CASE calls[c].op = "AddNode" ->
              /\ SetStore(ManagerAddNode(Store,
                     AutoRegisteredNode(Domain1, n, Address1, FALSE, calls[c].arg, NilTags, now), now))
              /\ UNCHANGED nextSweep
         [] calls[c].op = "UpdateNodeStatus" ->
              /\ SetStore(ManagerUpdateNodeStatus(Store, n, convertProtoNodeStatus(calls[c].arg), now))
              /\ UNCHANGED nextSweep
         [] calls[c].op = "checkNodeTimeouts" ->
              /\ SetStore(checkNodeTimeouts(Store, now))
              /\ nextSweep' = ((now \div SweepInterval) + 1) * SweepInterval
    /\ Leave(c)
    /\ UNCHANGED <<now, genCount, repo, created, sched, dials>>

\* selectRandomNode on one domain: GetNodesByDomain under the shared side, the
\* checks on a node of the slice it returned, then the dial of forwardToNode.
selectRandomNode_RLock(c, domainID) ==
    /\ calls[c].pc = "idle"
    /\ RLockFree(c)
    /\ InMethod(c, "DeployComponent", "GetNodesByDomain", "R", "", domainID, "")
    /\ UNCHANGED <<domains, nodes, now, nextSweep, genCount, repo, created, sched, dials>>

selectRandomNode_GetNodesByDomain(c, nodeID) ==
    /\ calls[c].op = "DeployComponent"
    /\ calls[c].pc = "GetNodesByDomain"
    /\ IF GetDomainErr(domains, calls[c].domain) # ErrNone
       THEN Leave(c)
       ELSE LET ps == GetNodesByDomain(Store, calls[c].domain) IN
            IF Len(ps) = 0
            THEN Leave(c)
            ELSE /\ \E i \in 1..Len(ps) : ps[i].id = nodeID
                 /\ calls' = [calls EXCEPT ![c] = [RUnlock(@) EXCEPT !.pc = "filter", !.node = nodeID]]
    /\ UNCHANGED <<domains, nodes, now, nextSweep, genCount, repo, created, sched, dials>>

\* A node that has left the store was offline or in error when it was removed.
selectRandomNode_Filter(c) ==
    /\ calls[c].op = "DeployComponent"
    /\ calls[c].pc = "filter"
    /\ LET n == calls[c].node IN
       IF /\ n \in DOMAIN nodes
          /\ nodes[n].Status = NodeStatusOnline
          /\ nodes[n].Address # ""
       THEN calls' = [calls EXCEPT ![c] = [@ EXCEPT !.pc = "forwardToNode", !.arg = nodes[n].Address]]
       ELSE Leave(c)
    /\ UNCHANGED <<domains, nodes, now, nextSweep, genCount, repo, created, sched, dials>>

forwardToNode_Dial(c) ==
    /\ calls[c].op = "DeployComponent"
    /\ calls[c].pc = "forwardToNode"
    /\ dials' = <<[node |-> calls[c].node, address |-> calls[c].arg]>>
    /\ Leave(c)
    /\ UNCHANGED <<domains, nodes, now, nextSweep, genCount, repo, created, sched>>

\* Manager.AddDomain of a CreateDomain whose row has been written: the
\* exclusive side is taken, then the body runs and the side is released.
CreateDomain_Lock(c) ==
    /\ calls[c].op = "CreateDomain"
    /\ calls[c].pc = "AddDomain"
    /\ LockFree(c)
    /\ calls' = [calls EXCEPT ![c] =
                    [op |-> "CreateDomain", pc |-> "locked", lock |-> "W", node |-> "",
                     domain |-> @.domain, arg |-> "", err |-> ErrNone, obj |-> @.obj]]
    /\ UNCHANGED <<domains, nodes, now, nextSweep, genCount, repo, created, sched, dials>>

CreateDomain_Locked(c) ==
    /\ calls[c].op = "CreateDomain"
    /\ calls[c].pc = "locked"
    /\ LET domain == calls[c].obj
       IN /\ Finish(c, "CreateDomain", "", domain.ID, AddDomainErr(Store, domain))
          /\ SetStore(ManagerAddDomain(Store, domain))
          /\ created' = IF AddDomainErr(Store, domain) = ErrNone
                        THEN Put(created, domain.ID, domain)
                        ELSE created
    /\ UNCHANGED <<now, nextSweep, genCount, repo, sched, dials>>

InitGuard ==
    /\ repo = RepoOf({Domain1})
    /\ created = [d \in {Domain1} |-> NewDomain(d, "prod", "edge", 0)]
    /\ domains = LoadDomains(NewManager, repo, 0).domains
    /\ nodes = <<>>
    /\ now = 0
    /\ nextSweep = SweepInterval
    /\ genCount = 1
    /\ calls = [c \in Clients |-> Idle]
    /\ sched = SchedIdle
    /\ dials = <<>>

NextGuard ==
    \/ \E c \in Clients, d \in DomainIDs : UpdateDomain_RLock(c, d, "staging")
    \/ \E c \in Clients : UpdateDomain_GetDomain(c)
    \/ \E c \in Clients : UpdateDomain_Assign(c)
    \/ \E c \in Clients, op \in GuardOps, s \in {"NODE_STATUS_ONLINE", "NODE_STATUS_ERROR"} :
          Manager_Lock(c, op, FrameNode, s)
    \/ \E c \in Clients : Manager_Run(c)
    \/ \E c \in Clients, d \in DomainIDs : selectRandomNode_RLock(c, d)
    \/ \E c \in Clients, n \in NodeIDs : selectRandomNode_GetNodesByDomain(c, n)
    \/ \E c \in Clients : selectRandomNode_Filter(c)
    \/ \E c \in Clients : forwardToNode_Dial(c)
    \/ \E c \in Clients, dbFails \in BOOLEAN : CreateDomain_Persist(c, "prod", "edge", dbFails)
    \/ \E c \in Clients : CreateDomain_Lock(c)
    \/ \E c \in Clients : CreateDomain_Locked(c)
    \/ \E c \in Clients : Return(c)
    \/ Tick(LateStep)

SpecGuard == InitGuard /\ [][NextGuard]_vars

\* The objects of the store that the next step of call c reads or writes.
Accesses(c) ==
    LET call == calls[c] IN
    IF call.op = "UpdateDomain" /\ call.pc = "assign" /\ call.domain \in DOMAIN domains
    THEN {[obj |-> call.domain, write |-> TRUE]}
    ELSE IF call.op = "DeployComponent" /\ call.pc = "GetNodesByDomain" /\ call.domain \in DOMAIN domains
    THEN {[obj |-> call.domain, write |-> FALSE]}
    ELSE IF call.op = "DeployComponent" /\ call.pc = "filter" /\ call.node \in DOMAIN nodes
    THEN {[obj |-> call.node, write |-> FALSE]}
    ELSE IF call.op = "AddNode" /\ call.pc = "locked"
    THEN {[obj |-> call.domain, write |-> TRUE]}
    ELSE IF call.op = "UpdateNodeStatus" /\ call.pc = "locked" /\ call.node \in DOMAIN nodes
    THEN {[obj |-> call.node, write |-> TRUE], [obj |-> nodes[call.node].DomainID, write |-> TRUE]}
    ELSE IF call.op = "checkNodeTimeouts" /\ call.pc = "locked"
    THEN {[obj |-> n, write |-> ShouldTimeout(nodes[n], now)] : n \in DOMAIN nodes}
         \cup {[obj |-> nodes[n].DomainID, write |-> TRUE] :
                  n \in {m \in DOMAIN nodes : ShouldTimeout(nodes[m], now) \/ ShouldCleanup(nodes[m], now)}}
    ELSE {}

\* Two calls are about to access one object and one of them writes it.
ConcurrentAccess ==
    \E c1, c2 \in Clients :
        /\ c1 # c2
        /\ \E a1 \in Accesses(c1), a2 \in Accesses(c2) : a1.obj = a2.obj /\ a1.write

\* C22: a step that changes a domain or a node of the store is taken by a
\* call that holds the exclusive side of the guard, and at no point are two
\* calls about to access the same object with one of them writing it.
GuardDiscipline ==
    [][/\ \A c \in Clients :
             (calls'[c] # calls[c] /\ (domains' # domains \/ nodes' # nodes))
             => LockOf(calls[c]) = "W"
       /\ ~ConcurrentAccess']_vars

\* The step of call c is the dial and downstream call of forwardToNode or the
\* write of CreateDomain to the table.
BlockingIO(c) ==
    \/ calls[c].pc = "forwardToNode" /\ calls'[c] # calls[c]
    \/ calls[c].pc = "idle" /\ calls'[c].op = "CreateDomain"

\* C27: the call that dials a node and forwards the request, and the call
\* that writes a domain to the table, hold no side of the guard before or
\* after that step.
NoGuardAcrossIO ==
    [][\A c \in Clients :
          BlockingIO(c) => (LockOf(calls[c]) = "" /\ LockOf(calls'[c]) = "")]_vars

\* A node has been dialed and a second domain written to the table, and a
\* call is inside a Manager method with the exclusive side.
NoGuardAcrossIOWitness ==
    /\ Len(dials) = 1
    /\ DomainIDPool[2] \in DOMAIN repo
    /\ \E c \in Clients : LockOf(calls[c]) = "W"

(***************************************************************************)
(* SpecStats: GetDomainStats as the steps of a client task beside status   *)
(* changes and removals.  The loop ranges over the NodeIDs slice of the    *)
(* domain GetDomain returned: its length is fixed when the loop starts and *)
(* its elements are read from the array the store keeps writing to.        *)
(***************************************************************************)
NoStats == [TotalNodes |-> 0, OnlineNodes |-> 0, OfflineNodes |-> 0, ErrorNodes |-> 0]

StatsCall(pc, domainID, view, idx, counted, stats, err) ==
    [op |-> "GetDomainStats", pc |-> pc, node |-> "", domain |-> domainID, status |-> "",
     err |-> err, view |-> view, idx |-> idx, counted |-> counted, stats |-> stats]

\* Domain.RemoveNode moves the elements behind nodeID one place down in the
\* array; the place of the last element keeps what it held.
ShiftedView(view, ids, nodeID) ==
    LET i == FirstIndex(ids, nodeID) IN
    IF i = 0
    THEN view
    ELSE [j \in 1..Len(view) |-> IF j >= i /\ j < Len(ids) THEN view[j + 1] ELSE view[j]]

\* The switch on the status GetNodeStatus returned.
CountedStatus(stats, status) ==
    CASE status = NodeStatusOnline -> [stats EXCEPT !.OnlineNodes = @ + 1]
      [] status = NodeStatusError -> [stats EXCEPT !.ErrorNodes = @ + 1]
      [] OTHER -> [stats EXCEPT !.OfflineNodes = @ + 1]

\* Manager.GetNodeStatus
GetNodeStatus(nds, nodeID) ==
    IF nodeID \in DOMAIN nds THEN nds[nodeID].Status ELSE NodeStatusOffline

GetDomainStats_GetDomain(c, domainID) ==
    /\ calls[c].pc = "idle"
    /\ calls' = [calls EXCEPT ![c] =
                    IF GetDomainErr(domains, domainID) # ErrNone
                    THEN StatsCall("return", domainID, <<>>, 1, <<>>, NoStats, ErrDomainNotFound)
                    ELSE StatsCall("range", domainID, domains[domainID].NodeIDs, 1, <<>>,
                                   NoStats, ErrNone)]
    /\ UNCHANGED <<domains, nodes, now, nextSweep, genCount, repo, created, sched, dials>>

GetDomainStats_GetNode(c) ==
    /\ calls[c].op = "GetDomainStats"
    /\ calls[c].pc = "range"
    /\ calls' = [calls EXCEPT ![c] =
                    IF @.idx > Len(@.view)
                    THEN [@ EXCEPT !.pc = "return"]
                    ELSE IF GetNodeErr(nodes, @.view[@.idx]) # ErrNone
                         THEN [@ EXCEPT !.idx = @ + 1]
                         ELSE [@ EXCEPT !.pc = "GetNodeStatus",
                                        !.counted = Append(@, calls[c].view[calls[c].idx]),
                                        !.stats.TotalNodes = @ + 1]]
    /\ UNCHANGED <<domains, nodes, now, nextSweep, genCount, repo, created, sched, dials>>

GetDomainStats_GetNodeStatus(c) ==
    /\ calls[c].op = "GetDomainStats"
    /\ calls[c].pc = "GetNodeStatus"
    /\ LET nodeID == calls[c].view[calls[c].idx] IN
       calls' = [calls EXCEPT ![c] =
                    [@ EXCEPT !.pc = "range", !.idx = @ + 1,
                              !.stats = CountedStatus(@, GetNodeStatus(nodes, nodeID))]]
    /\ UNCHANGED <<domains, nodes, now, nextSweep, genCount, repo, created, sched, dials>>

\* Manager.RemoveNode beside the loops in progress over the domain's NodeIDs.
StatsRemoveNode(nodeID) ==
    /\ nodeID \in DOMAIN nodes
    /\ SetStore(ManagerRemoveNode(Store, nodeID, now))
    /\ calls' = [c \in Clients |->
                    IF calls[c].op = "GetDomainStats" /\ calls[c].pc # "return"
                       /\ calls[c].domain = nodes[nodeID].DomainID
                       /\ calls[c].domain \in DOMAIN domains
                    THEN [calls[c] EXCEPT !.view =
                             ShiftedView(@, domains[calls[c].domain].NodeIDs, nodeID)]
                    ELSE calls[c]]
    /\ sched' = Detach(sched, nodes, nodes')
    /\ UNCHANGED <<now, nextSweep, genCount, repo, created, dials>>

\* A node joins while no loop is in progress; a node that is known reports a
\* status at any time.
StatsHeartbeat(nodeID, status) ==
    /\ nodeID \notin DOMAIN nodes => \A c \in Clients : calls[c].pc = "idle"
    /\ HealthCheck(nodeID, Domain1, Address1, FALSE, status, NilTags)

NextStats ==
    \/ \E c \in Clients, d \in DomainIDs : GetDomainStats_GetDomain(c, d)
    \/ \E c \in Clients : GetDomainStats_GetNode(c)
    \/ \E c \in Clients : GetDomainStats_GetNodeStatus(c)
    \/ \E c \in Clients : Return(c)
    \/ \E n \in NodeIDs : StatsRemoveNode(n)
    \/ \E n \in NodeIDs, s \in ReconnectStatuses : StatsHeartbeat(n, s)

SpecStats == InitLoaded /\ [][NextStats]_vars

\* C25: the statistics GetDomainStats returns count every node once, in
\* exactly one of the three status counts, and TotalNodes is their sum.
StatsCountEachNodeOnce ==
    \A c \in Clients :
        (calls[c].op = "GetDomainStats" /\ calls[c].pc = "return" /\ calls[c].err = ErrNone)
        => LET st == calls[c].stats IN
           /\ st.TotalNodes = st.OnlineNodes + st.OfflineNodes + st.ErrorNodes
           /\ st.TotalNodes = Len(calls[c].counted)
           /\ \A n \in Range(calls[c].counted) : Occurrences(calls[c].counted, n) = 1

(***************************************************************************)
(* SpecStop: the sweeper goroutine as a task with a position in its loop,  *)
(* beside the main goroutine, which cancels the context and calls Stop.    *)
(***************************************************************************)
SweeperTask == 1
MainTask == 2

\* close(m.healthCheckStop) has run.
StopClosed == "stopped" \in DOMAIN calls[MainTask] /\ calls[MainTask].stopped

\* The context given to Start is done.
ContextDone == "cancelled" \in DOMAIN calls[MainTask] /\ calls[MainTask].cancelled

SweeperAt(pc) == calls[SweeperTask].op = "startHealthCheckTimeoutMonitor" /\ calls[SweeperTask].pc = pc

SweeperGoes(pc) ==
    calls' = [calls EXCEPT ![SweeperTask] =
                 [Idle EXCEPT !.op = "startHealthCheckTimeoutMonitor", !.pc = pc]]

MainSignals(stopped, cancelled) ==
    calls' = [calls EXCEPT ![MainTask] =
                 [op |-> "main", pc |-> "shutdown", stopped |-> stopped, cancelled |-> cancelled]]

\* Manager.Start: go m.startHealthCheckTimeoutMonitor(ctx)
Manager_Start ==
    /\ calls[SweeperTask].pc = "idle"
    /\ SweeperGoes("select")
    /\ UNCHANGED <<domains, nodes, now, nextSweep, genCount, repo, created, sched, dials>>

\* case <-ticker.C
Sweeper_Ticker ==
    /\ SweeperAt("select")
    /\ now >= nextSweep
    /\ SweeperGoes("checkNodeTimeouts")
    /\ UNCHANGED <<domains, nodes, now, nextSweep, genCount, repo, created, sched, dials>>

Sweeper_Sweep ==
    /\ SweeperAt("checkNodeTimeouts")
    /\ SetStore(checkNodeTimeouts(Store, now))
    /\ nextSweep' = ((now \div SweepInterval) + 1) * SweepInterval
    /\ SweeperGoes("select")
    /\ sched' = Detach(sched, nodes, nodes')
    /\ UNCHANGED <<now, genCount, repo, created, dials>>

\* Mutant: the loop listens to the context only.
Sweeper_ReturnOnCancelOnly ==
    /\ SweeperAt("select")
    /\ ContextDone
    /\ SweeperGoes("returned")
    /\ UNCHANGED <<domains, nodes, now, nextSweep, genCount, repo, created, sched, dials>>

\* case <-m.healthCheckStop, case <-ctx.Done()
Sweeper_Return ==
    /\ SweeperAt("select")
    /\ StopClosed \/ ContextDone
    /\ SweeperGoes("returned")
    /\ UNCHANGED <<domains, nodes, now, nextSweep, genCount, repo, created, sched, dials>>

\* cancel() of the context of main.
Main_Cancel ==
    /\ ~ContextDone
    /\ MainSignals(StopClosed, TRUE)
    /\ UNCHANGED <<domains, nodes, now, nextSweep, genCount, repo, created, sched, dials>>

\* Manager.Stop, called once.
Manager_Stop ==
    /\ ~StopClosed
    /\ MainSignals(TRUE, ContextDone)
    /\ UNCHANGED <<domains, nodes, now, nextSweep, genCount, repo, created, sched, dials>>

Clock ==
    /\ now + TickStep <= MaxTime
    /\ now' = now + TickStep
    /\ UNCHANGED <<domains, nodes, nextSweep, genCount, calls, repo, created, sched, dials>>

NextStop ==
    \/ Manager_Start
    \/ Sweeper_Ticker
    \/ Sweeper_Sweep
    \/ Sweeper_Return
    \/ Main_Cancel
    \/ Manager_Stop
    \/ Clock
    \/ \E s \in {"NODE_STATUS_ONLINE", "NODE_STATUS_ERROR"} :
          HealthCheck(FrameNode, Domain1, Address1, FALSE, s, NilTags)

\* The sweeper goroutine runs whenever it can take a step.
SpecStop ==
    /\ InitLoaded
    /\ [][NextStop]_vars
    /\ WF_vars(Sweeper_Ticker) /\ WF_vars(Sweeper_Sweep) /\ WF_vars(Sweeper_Return)

SweeperStarted == calls[SweeperTask].op = "startHealthCheckTimeoutMonitor"

\* C26: once the stop channel is closed or the context is done, a started
\* sweeper loop returns; after it has returned it stays returned and the store
\* is swept no more; a sweep that has begun is finished before the loop can
\* return.
SweeperTerminates ==
    /\ (SweeperStarted /\ (StopClosed \/ ContextDone)) ~> SweeperAt("returned")
    /\ [][/\ SweeperAt("returned") => (SweeperAt("returned")' /\ ~SweepStep)
          /\ (SweeperAt("checkNodeTimeouts") /\ calls'[SweeperTask] # calls[SweeperTask])
             => (SweepStep /\ SweeperAt("select")')]_vars

\* The loop has returned after Stop, and a node it marked offline is in the
\* store.
SweeperTerminatesWitness ==
    /\ SweeperAt("returned")
    /\ StopClosed
    /\ ~ContextDone
    /\ \E n \in DOMAIN nodes : MarkedOffline(n)

(***************************************************************************)
(* SpecReload: LoadDomains called on a store in use, after domains were    *)
(* created, joined by nodes and deleted.                                   *)
(***************************************************************************)
\* loadedCount: the rows whose domain AddDomain inserted.
LoadedCount(st, rp) ==
    Cardinality({dao \in RepoGetAllDomains(rp) : AddDomainErr(st, LoadedDomain(dao, 0)) = ErrNone})

LoadDomains_Call(c) ==
    /\ calls[c].pc = "idle"
    /\ SetStore(LoadDomains(Store, repo, now))
    /\ calls' = [calls EXCEPT ![c] =
                    [op |-> "LoadDomains", pc |-> "return", node |-> "", domain |-> "",
                     status |-> "", err |-> ErrNone, loaded |-> LoadedCount(Store, repo)]]
    /\ UNCHANGED <<now, nextSweep, genCount, repo, created, sched, dials>>

NextReload ==
    \/ \E dbFails \in BOOLEAN : CreateDomain("prod", "edge", dbFails)
    \/ \E d \in DomainIDs : DeleteDomain(d)
    \/ \E d \in DomainIDs, h \in BOOLEAN :
          HealthCheck(FrameNode, d, Address1, h, "NODE_STATUS_ONLINE", CpuTags)
    \/ \E c \in Clients : LoadDomains_Call(c)
    \/ \E c \in Clients : Return(c)
    \/ Tick(LateStep)

SpecReload == Init /\ [][NextReload]_vars

\* C31: LoadDomains leaves every row's domain in the store; a domain that was
\* not there has the row's attributes, no nodes, no head and all tags false; a
\* domain that was there is as before; the nodes and the other domains are as
\* before, and the call returns no error.
LoadSkipsDuplicates ==
    [][\A c \in Clients :
          LoadDomains_Call(c) =>
             /\ calls'[c].err = ErrNone
             /\ nodes' = nodes
             /\ DOMAIN domains' = DOMAIN domains \cup DOMAIN repo
             /\ \A id \in DOMAIN domains : domains'[id] = domains[id]
             /\ \A id \in DOMAIN repo \ DOMAIN domains :
                   /\ domains'[id].NodeIDs = <<>>
                   /\ domains'[id].HeadNodeID = NoNode
                   /\ domains'[id].ResourceTags = NewResourceTags(FALSE, FALSE, FALSE, FALSE)
                   /\ domains'[id].Name = repo[id].name
                   /\ domains'[id].Description = repo[id].description]_vars

\* A call that loaded one of two rows: the other row's domain was in the store
\* with a head node and a tag, and still has them.
LoadSkipsDuplicatesWitness ==
    \E c \in Clients :
        /\ calls[c].op = "LoadDomains"
        /\ calls[c].loaded = 1
        /\ Cardinality(DOMAIN repo) = 2
        /\ Cardinality(DOMAIN domains) = 2
        /\ \E d \in DOMAIN domains :
              /\ domains[d].NodeIDs = <<FrameNode>>
              /\ domains[d].HeadNodeID = FrameNode
              /\ domains[d].ResourceTags.CPU

(***************************************************************************)
(* SpecUpdate: service.UpdateDomain as a call with its error, beside       *)
(* creations, heartbeats and restarts.                                     *)
(***************************************************************************)
\* Mutant: the new name and description are written to the row as well.
UpdateDomainRunPersists(st, rp, domainID, name, description, t) ==
    IF GetDomainErr(st.domains, domainID) # ErrNone
    THEN [st |-> st, repo |-> rp, err |-> ErrDomainNotFound]
    ELSE [st |-> [st EXCEPT !.domains[domainID] =
                     [@ EXCEPT !.Name = IF name # "" THEN name ELSE @,
                               !.Description = IF description # "" THEN description ELSE @,
                               !.UpdatedAt = t]],
          repo |-> IF domainID \in DOMAIN rp
                   THEN [rp EXCEPT ![domainID] =
                            [@ EXCEPT !.name = IF name # "" THEN name ELSE @,
                                      !.description = IF description # "" THEN description ELSE @]]
                   ELSE rp,
          err |-> ErrNone]

\* UpdateDomain run as a whole: the store and the table it leaves, and its error.
UpdateDomainRun(st, rp, domainID, name, description, t) ==
    IF GetDomainErr(st.domains, domainID) # ErrNone
    THEN [st |-> st, repo |-> rp, err |-> ErrDomainNotFound]
    ELSE [st |-> [st EXCEPT !.domains[domainID] =
                     [@ EXCEPT !.Name = IF name # "" THEN name ELSE @,
                               !.Description = IF description # "" THEN description ELSE @,
                               !.UpdatedAt = t]],
          repo |-> rp,
          err |-> ErrNone]

UpdateDomain_Call(c, domainID, name, description) ==
    /\ calls[c].pc = "idle"
    /\ LET run == UpdateDomainRun(Store, repo, domainID, name, description, now) IN
          /\ SetStore(run.st)
          /\ repo' = run.repo
          /\ Finish(c, "UpdateDomain", "", domainID, run.err)
    /\ UNCHANGED <<now, nextSweep, genCount, created, sched, dials>>

NextUpdate ==
    \/ \E dbFails \in BOOLEAN : CreateDomain("prod", "edge", dbFails)
    \/ \E d \in DomainIDs, h \in BOOLEAN :
          HealthCheck(FrameNode, d, Address1, h, "NODE_STATUS_ONLINE", CpuTags)
    \/ \E c \in Clients, d \in DomainIDs, name \in UpdateNames, description \in UpdateDescriptions :
          UpdateDomain_Call(c, d, name, description)
    \/ \E c \in Clients : Return(c)
    \/ Restart
    \/ Tick(LateStep)

SpecUpdate == Init /\ [][NextUpdate]_vars

\* C32: UpdateDomain leaves the table and the nodes; for a known ID it returns
\* no error and changes Name and Description of that domain only where a
\* non-empty value was given (and UpdatedAt); for an unknown ID it returns
\* DomainNotFound and changes nothing; a restart brings back the Name and
\* Description each domain was created with.
UpdateInMemoryOnly ==
    [][/\ \A c \in Clients, d \in DomainIDs, name \in UpdateNames, description \in UpdateDescriptions :
             UpdateDomain_Call(c, d, name, description) =>
                /\ repo' = repo
                /\ nodes' = nodes
                /\ IF d \in DOMAIN domains
                   THEN /\ calls'[c].err = ErrNone
                        /\ domains' = [domains EXCEPT ![d] =
                              [@ EXCEPT !.Name = IF name # "" THEN name ELSE @,
                                        !.Description = IF description # "" THEN description ELSE @,
                                        !.UpdatedAt = now]]
                   ELSE /\ calls'[c].err = ErrDomainNotFound
                        /\ domains' = domains
       /\ Restart =>
             \A id \in DOMAIN created :
                /\ GetDomainErr(domains', id) = ErrNone
                /\ domains'[id].Name = created[id].Name
                /\ domains'[id].Description = created[id].Description]_vars

\* A domain with a head node was renamed and described anew, and its row holds
\* what it was created with.
UpdateInMemoryOnlyWitness ==
    \E d \in DOMAIN domains :
        /\ domains[d].Name = "staging"
        /\ domains[d].Description = "core"
        /\ domains[d].HeadNodeID = FrameNode
        /\ repo[d].name = "prod"
        /\ repo[d].description = "edge"

(***************************************************************************)
(* SpecRemove: Manager.RemoveNode on stores that heartbeats with tags and  *)
(* head flags have filled.                                                 *)
(***************************************************************************)
RemoveTags == {CpuTags, NewResourceTags(FALSE, TRUE, FALSE, FALSE)}

NextRemove ==
    \/ \E n \in NodeIDs, d \in DomainIDs, h \in BOOLEAN, t \in RemoveTags :
          HealthCheck(n, d, Address1, h, "NODE_STATUS_ONLINE", t)
    \/ \E n \in NodeIDs : RemoveNode(n)
    \/ Tick(LateStep)

SpecRemove == InitLoadedAll /\ [][NextRemove]_vars

\* The tag a domain gets from the nodes its NodeIDs list names.
TagOfMembers(doms, nds, d, tag) ==
    \E m \in Range(doms[d].NodeIDs) :
        m \in DOMAIN nds /\ ~nds[m].ResourceTags.isNil /\ nds[m].ResourceTags[tag]

\* C33: RemoveNode of a stored node takes it out of the nodes map and out of
\* its domain's NodeIDs, clears that domain's HeadNodeID exactly when it named
\* the node, sets the domain's tags to those of the remaining members, and
\* leaves every other node and domain as it was; RemoveNode of an unknown ID
\* returns NodeNotFound and leaves the store as it was.
RemoveNodeFrame ==
    [][\A n \in NodeIDs :
          RemoveNode(n) =>
             IF n \in DOMAIN nodes
             THEN LET d == nodes[n].DomainID IN
                  /\ RemoveNodeErr(Store, n) = ErrNone
                  /\ nodes' = Drop(nodes, {n})
                  /\ DOMAIN domains' = DOMAIN domains
                  /\ \A o \in DOMAIN domains : o # d => domains'[o] = domains[o]
                  /\ d \in DOMAIN domains
                  /\ Occurrences(domains[d].NodeIDs, n) = 1
                  /\ Occurrences(domains'[d].NodeIDs, n) = 0
                  /\ Range(domains'[d].NodeIDs) = Range(domains[d].NodeIDs) \ {n}
                  /\ domains'[d].HeadNodeID =
                        IF domains[d].HeadNodeID = n THEN NoNode ELSE domains[d].HeadNodeID
                  /\ \A tag \in {"CPU", "GPU", "Memory", "Camera"} :
                        domains'[d].ResourceTags[tag] = TagOfMembers(domains', nodes', d, tag)
                  /\ domains'[d].Name = domains[d].Name
                  /\ domains'[d].Description = domains[d].Description
             ELSE /\ RemoveNodeErr(Store, n) = ErrNodeNotFound
                  /\ nodes' = nodes
                  /\ domains' = domains]_vars

\* A head node with the only gpu tag was removed: its domain has no head, lists
\* the other node alone and is left with the cpu tag of that node.
RemoveNodeFrameWitness ==
    \E d \in DOMAIN domains :
        /\ domains[d].NodeIDs = <<NodeIDPool[2]>>
        /\ NodeIDPool[1] \notin DOMAIN nodes
        /\ domains[d].HeadNodeID = NoNode
        /\ domains[d].ResourceTags.CPU
        /\ ~domains[d].ResourceTags.GPU
        /\ domains[d].UpdatedAt > nodes[NodeIDPool[2]].UpdatedAt

(***************************************************************************)
(* SpecAdd: Manager.AddNode as a call with its error, on stores where      *)
(* nodes exist and domains have been removed.                              *)
(***************************************************************************)
AddedNode(nodeID, domainID, isHead, t) ==
    [ID |-> nodeID, DomainID |-> domainID, Name |-> nodeID, Address |-> Address1,
     IsHead |-> isHead, Status |-> NodeStatusOnline, ResourceTags |-> CpuTags,
     LastSeen |-> t, CreatedAt |-> t, UpdatedAt |-> t]

AddNode_Call(c, nodeID, domainID, isHead) ==
    /\ calls[c].pc = "idle"
    /\ SetStore(ManagerAddNode(Store, AddedNode(nodeID, domainID, isHead, now), now))
    /\ Finish(c, "AddNode", nodeID, domainID, AddNodeErr(Store, AddedNode(nodeID, domainID, isHead, now)))
    /\ UNCHANGED <<now, nextSweep, genCount, repo, created, sched, dials>>

NextAdd ==
    \/ \E c \in Clients, n \in NodeIDs, d \in DomainIDs, h \in BOOLEAN : AddNode_Call(c, n, d, h)
    \/ \E c \in Clients : Return(c)
    \/ \E d \in DomainIDs : DeleteDomain(d)
    \/ \E n \in NodeIDs : RemoveNode(n)
    \/ Restart
    \/ Tick(LateStep)

SpecAdd == InitLoadedAll /\ [][NextAdd]_vars

\* C34: AddNode of an ID the nodes map holds returns NodeAlreadyExists,
\* whatever domain the node names; AddNode of a new ID naming an absent domain
\* returns DomainNotFound; in both cases nodes and domains stay as they were.
AddNodeFailureFrame ==
    [][\A c \in Clients, n \in NodeIDs, d \in DomainIDs, h \in BOOLEAN :
          AddNode_Call(c, n, d, h) =>
             /\ n \in DOMAIN nodes =>
                   (calls'[c].err = ErrNodeAlreadyExists /\ nodes' = nodes /\ domains' = domains)
             /\ (n \notin DOMAIN nodes /\ d \notin DOMAIN domains) =>
                   (calls'[c].err = ErrDomainNotFound /\ nodes' = nodes /\ domains' = domains)
             /\ calls'[c].err \in {ErrNodeAlreadyExists, ErrDomainNotFound} =>
                   (nodes' = nodes /\ domains' = domains)]_vars

\* One AddNode failed for an ID stored in another domain while the domain it
\* named was absent, another failed for a new ID naming that absent domain.
AddNodeFailureFrameWitness ==
    \E c1, c2 \in Clients :
        /\ calls[c1].op = "AddNode" /\ calls[c1].err = ErrNodeAlreadyExists
        /\ calls[c1].node \in DOMAIN nodes
        /\ calls[c1].domain \notin DOMAIN domains
        /\ nodes[calls[c1].node].DomainID # calls[c1].domain
        /\ calls[c2].op = "AddNode" /\ calls[c2].err = ErrDomainNotFound
        /\ calls[c2].node \notin DOMAIN nodes
        /\ calls[c2].domain \notin DOMAIN domains

(***************************************************************************)
(* SpecLogs: the in-memory log hook.  The hook's buffer is kept in the     *)
(* record of one task, the HTTP handler that reads it runs as the other.   *)
(***************************************************************************)
MaxLogSize == 3
MaxFired == 4
MaxStart == 5
MaxLimit == 3
DefaultLimit == 100
LimitCap == 1000
LogHookTask == 1
LogReaderTask == 2

LogLevels == {"info", "error"}

NewMemoryLogHook(maxSize) ==
    [op |-> "MemoryLogHook", pc |-> "hook", node |-> "", domain |-> "", status |-> "",
     err |-> ErrNone, logs |-> <<>>, maxSize |-> IF maxSize <= 0 THEN 1000 ELSE maxSize, fired |-> 0]

Reverse(q) == [i \in 1..Len(q) |-> q[Len(q) + 1 - i]]

RECURSIVE FilterLevel(_, _, _)
FilterLevel(logs, level, i) ==
    IF i > Len(logs)
    THEN <<>>
    ELSE IF logs[i].Level = level
         THEN <<logs[i]>> \o FilterLevel(logs, level, i + 1)
         ELSE FilterLevel(logs, level, i + 1)

\* MemoryLogHook.GetLogs: make([]LogEntry, n) with n < 0 panics.
GetLogs(buffer, start0, limit0, level) ==
    LET start == IF start0 < 0 THEN 0 ELSE start0
        limit == IF limit0 <= 0 THEN DefaultLimit ELSE limit0
        total == Len(buffer)
        fromEnd == IF start + limit > total THEN total ELSE start + limit
        endIdx == IF total - start > total THEN total ELSE total - start
        startIdx == IF total - fromEnd < 0 THEN 0 ELSE total - fromEnd
        window == Reverse(SubSeq(buffer, startIdx + 1, endIdx))
    IN IF total = 0
       THEN [panics |-> FALSE, logs |-> <<>>]
       ELSE IF endIdx - startIdx < 0
            THEN [panics |-> TRUE, logs |-> <<>>]
            ELSE [panics |-> FALSE,
                  logs |-> IF level # "" THEN FilterLevel(window, level, 1) ELSE window]

\* MemoryLogHook.Fire: append, then drop the oldest entry above maxSize.
Fire(level) ==
    LET h == calls[LogHookTask]
        appended == Append(h.logs, [Level |-> level, Message |-> h.fired + 1])
    IN /\ h.fired < MaxFired
       /\ calls' = [calls EXCEPT ![LogHookTask] =
                       [h EXCEPT !.logs = IF Len(appended) > h.maxSize THEN Tail(appended) ELSE appended,
                                 !.fired = @ + 1]]
       /\ UNCHANGED <<domains, nodes, now, nextSweep, genCount, repo, created, sched, dials>>

\* API.handleGetLogs: the query parameters as parsed numbers, their defaults
\* and the cap, then GetLogs.
handleGetLogs(startParam, limitParam, level) ==
    LET start == IF startParam >= 0 THEN startParam ELSE 0
        limit == IF limitParam > 0
                 THEN (IF limitParam > LimitCap THEN LimitCap ELSE limitParam)
                 ELSE DefaultLimit
        got == GetLogs(calls[LogHookTask].logs, start, limit, level)
    IN /\ calls[LogReaderTask].pc = "idle"
       /\ calls' = [calls EXCEPT ![LogReaderTask] =
                       [op |-> "GetLogs", pc |-> "return", node |-> "", domain |-> "", status |-> level,
                        err |-> ErrNone, start |-> start, limit |-> limit,
                        panics |-> got.panics, logs |-> got.logs]]
       /\ UNCHANGED <<domains, nodes, now, nextSweep, genCount, repo, created, sched, dials>>

InitLogs ==
    /\ repo = <<>>
    /\ created = <<>>
    /\ domains = <<>>
    /\ nodes = <<>>
    /\ now = 0
    /\ nextSweep = SweepInterval
    /\ genCount = 0
    /\ sched = SchedIdle
    /\ dials = <<>>
    /\ calls = [c \in Clients |-> IF c = LogHookTask THEN NewMemoryLogHook(MaxLogSize) ELSE Idle]

NextLogs ==
    \/ \E level \in LogLevels : Fire(level)
    \/ \E startParam \in (-1)..MaxStart, limitParam \in 0..MaxLimit, level \in LogLevels \cup {""} :
          handleGetLogs(startParam, limitParam, level)
    \/ Return(LogReaderTask)

SpecLogs == InitLogs /\ [][NextLogs]_vars

\* The entries from the start-th newest on, at most limit of them, newest first.
NewestWindow(buffer, start, limit) ==
    LET left == IF Len(buffer) - start < 0 THEN 0 ELSE Len(buffer) - start
        n == IF limit < left THEN limit ELSE left
    IN [i \in 1..n |-> buffer[Len(buffer) - start - i + 1]]

\* C35: GetLogs, for every start >= 0, every limit > 0 and every buffer, returns
\* without failing the window of at most limit entries that begins at the
\* start-th newest entry, newest first, restricted to the level when one is
\* given; a window past the end is empty.
GetLogsWindow ==
    [][\A startParam \in 0..MaxStart, limitParam \in 1..MaxLimit, level \in LogLevels \cup {""} :
          handleGetLogs(startParam, limitParam, level) =>
             LET buffer == calls[LogHookTask].logs
                 got == calls'[LogReaderTask]
                 window == NewestWindow(buffer, startParam, limitParam)
             IN /\ ~got.panics
                /\ Len(got.logs) <= limitParam
                /\ got.logs = IF level = "" THEN window
                              ELSE SelectSeq(window, LAMBDA e : e.Level = level)
                /\ startParam >= Len(buffer) => got.logs = <<>>]_vars

(***************************************************************************)
(* SpecMove: heartbeats that name the node's own domain, the other domain  *)
(* or a domain that was never created.                                     *)
(***************************************************************************)
AbsentDomain == "domain.404"

MoveDomains == DomainIDs \cup {AbsentDomain}

HealthCheck_Call(c, nodeID, domainID, address, isHead, status, tags) ==
    /\ calls[c].pc = "idle"
    /\ LET run == HealthCheckRun(Store, nodeID, domainID, address, isHead, status, tags, now) IN
          /\ SetStore(run.st)
          /\ Finish(c, "HealthCheck", nodeID, domainID, run.err)
    /\ UNCHANGED <<now, nextSweep, genCount, repo, created, sched, dials>>

NextMove ==
    \/ \E c \in Clients, n \in NodeIDs, d \in MoveDomains, h \in BOOLEAN :
          HealthCheck_Call(c, n, d, Address1, h, "NODE_STATUS_ONLINE", CpuTags)
    \/ \E c \in Clients : Return(c)
    \/ \E n \in NodeIDs : RemoveNode(n)
    \/ Tick(LateStep)

SpecMove == InitLoadedAll /\ [][NextMove]_vars

\* C36: a node in the store keeps its DomainID in every step that keeps the
\* node; a HealthCheck that names another domain, existing or not, succeeds,
\* stamps the node, leaves it listed once in its own domain and leaves the
\* NodeIDs of every other domain and the set of domains as they were.
DomainIDFixed ==
    [][\A n \in DOMAIN nodes :
          /\ n \in DOMAIN nodes' => nodes'[n].DomainID = nodes[n].DomainID
          /\ \A c \in Clients, d \in MoveDomains \ {nodes[n].DomainID}, h \in BOOLEAN :
                HealthCheck_Call(c, n, d, Address1, h, "NODE_STATUS_ONLINE", CpuTags) =>
                   /\ calls'[c].err = ErrNone
                   /\ n \in DOMAIN nodes'
                   /\ nodes'[n].LastSeen = now
                   /\ DOMAIN domains' = DOMAIN domains
                   /\ Occurrences(domains'[nodes[n].DomainID].NodeIDs, n) = 1
                   /\ \A o \in DOMAIN domains :
                         domains'[o].NodeIDs = domains[o].NodeIDs]_vars

\* A node created in one domain has answered a heartbeat that named the other
\* domain and one that named a domain never created, and is where it was.
DomainIDFixedWitness ==
    \E c1, c2 \in Clients :
        /\ calls[c1].op = "HealthCheck" /\ calls[c2].op = "HealthCheck"
        /\ calls[c1].node = calls[c2].node
        /\ calls[c1].node \in DOMAIN nodes
        /\ calls[c1].domain = AbsentDomain
        /\ calls[c2].domain \in DOMAIN domains
        /\ calls[c1].err = ErrNone /\ calls[c2].err = ErrNone
        /\ nodes[calls[c1].node].DomainID \notin {calls[c1].domain, calls[c2].domain}
        /\ nodes[calls[c1].node].LastSeen > nodes[calls[c1].node].CreatedAt
        /\ Members(calls[c2].domain) = {}

(***************************************************************************)
(* SpecDelete: domains created, filled, deleted, and the process restarted.*)
(***************************************************************************)
NextDelete ==
    \/ \E dbFails \in BOOLEAN : CreateDomain("prod", "edge", dbFails)
    \/ \E d \in DomainIDs, h \in BOOLEAN :
          HealthCheck(FrameNode, d, Address1, h, "NODE_STATUS_ONLINE", CpuTags)
    \/ \E d \in DomainIDs : DeleteDomain(d)
    \/ Restart
    \/ Tick(LateStep)

SpecDelete == Init /\ [][NextDelete]_vars

\* C37: DeleteDomain of a stored domain takes it out of the store, and a
\* domain that was created and is no longer in the store is not in the store
\* after any step, a restart included: GetDomain keeps returning DomainNotFound.
DeletedStaysDeleted ==
    [][/\ \A d \in DOMAIN domains : DeleteDomain(d) => GetDomainErr(domains', d) = ErrDomainNotFound
       /\ \A d \in DOMAIN created :
             GetDomainErr(domains, d) = ErrDomainNotFound =>
                GetDomainErr(domains', d) = ErrDomainNotFound]_vars

(***************************************************************************)
(* Racing handlers under SpecRpc: creation of one node by several calls,   *)
(* and the errors a heartbeat returns.                                     *)
(***************************************************************************)
ListedTimes(doms, n) ==
    Cardinality({<<d, i>> \in (DOMAIN doms) \X (1..MaxNodes + 1) :
                    i <= Len(doms[d].NodeIDs) /\ doms[d].NodeIDs[i] = n})

\* C38: when a handler's AddNode step runs for an ID that another call has put
\* in the store since this handler looked, it returns NodeAlreadyExists and
\* leaves the store as it was; when it adds the node, the node is in the map
\* and listed once, in its domain; after every step each stored node is listed
\* exactly once in all.
ConcurrentCreateOnce ==
    [][/\ \A c \in Clients :
             (calls[c].pc = "AddNode" /\ calls'[c].pc = "return") =>
                LET n == calls[c].node
                    d == calls[c].domain
                IN IF n \in DOMAIN nodes
                   THEN /\ calls'[c].err = ErrNodeAlreadyExists
                        /\ nodes' = nodes
                        /\ domains' = domains
                   ELSE IF d \notin DOMAIN domains
                        THEN /\ calls'[c].err = ErrDomainNotFound
                             /\ nodes' = nodes
                             /\ domains' = domains
                        ELSE /\ calls'[c].err = ErrNone
                             /\ n \in DOMAIN nodes'
                             /\ nodes'[n].DomainID = d
                             /\ Occurrences(domains'[d].NodeIDs, n) = 1
       /\ \A n \in DOMAIN nodes' : ListedTimes(domains', n) = 1
       /\ \A n \in NodeIDs \ DOMAIN nodes' : ListedTimes(domains', n) = 0]_vars

\* Two calls for one unknown node both passed their lookup: one added the
\* node, the heartbeat that came second was refused, and the node is listed once.
ConcurrentCreateOnceWitness ==
    \E c1, c2 \in Clients :
        /\ calls[c1].op = "HealthCheck" /\ calls[c1].pc = "return"
        /\ calls[c1].err = ErrNodeAlreadyExists
        /\ calls[c2].pc = "return" /\ calls[c2].err = ErrNone
        /\ calls[c2].op \in {"HealthCheck", "RegisterNode"}
        /\ calls[c2].node = calls[c1].node
        /\ calls[c2].domain = calls[c1].domain
        /\ calls[c1].node \in DOMAIN nodes
        /\ ListedTimes(domains, calls[c1].node) = 1

\* C39: a HealthCheck that has returned carries an error only for an empty
\* node_id or domain_id, or, its node having been unknown when it looked, for
\* a domain that is absent; every other HealthCheck returns success.
HeartbeatErrorsOnlyOnBadRequest ==
    \A c \in Clients :
        (calls[c].op = "HealthCheck" /\ calls[c].pc = "return" /\ calls[c].err # ErrNone) =>
            \/ calls[c].err = ErrFieldRequired /\ (calls[c].node = "" \/ calls[c].domain = "")
            \/ calls[c].err = ErrDomainNotFound /\ calls[c].domain \notin DOMAIN domains

====
